---- MODULE Spec2Model ----
(***************************************************************************)
(* Verification model of the Tycho core:                                   *)
(*   - the substreams message decoder                                      *)
(*     (tycho-indexer/src/extractor/protobuf_deserialisation.rs),          *)
(*   - the batched and the single-call account extractor                   *)
(*     (tycho-ethereum/src/account_extractor/contract.rs),                 *)
(*   - the realtime subscription client (tycho-client/src/lib.rs),         *)
(*   - the version resolution of the RPC service                           *)
(*     (tycho-indexer/src/services/rpc.rs),                                *)
(*   - the result of a swap simulation                                     *)
(*     (tycho-common/src/simulation/protocol_sim.rs).                      *)
(*                                                                         *)
(* Conventions.  An Option<T> is a sequence of length 0 (None) or 1        *)
(* (Some).  A HashMap is a function with a finite domain, a HashSet a set. *)
(* A Result is a record whose field kind is "Ok" (with value) or the error *)
(* kind (with reason); a panic of the code is the kind "Panic".  Bytes are *)
(* strings, the empty byte sequence the empty string.                      *)
(***************************************************************************)
EXTENDS Integers, Sequences, FiniteSets, Bags, TLC

VARIABLES
    target,     \* decoder: the type whose try_from_message is applied
    msg,        \* decoder: the substreams message handed to it
    res,        \* decoder: the value it returned
    pc,         \* decoder: "input" before the call, "done" after it
    requests,         \* extractor: the requests argument of get_accounts_at_block
    fail,             \* extractor: the RPC calls the node answers with an error
    unique_requests,  \* extractor: the deduplicated request list
    chunk_start,      \* extractor: position in unique_requests of the current chunk
    bpc,              \* extractor: position in get_accounts_at_block
    codes,            \* extractor: codes of the current chunk, by address
    balances,         \* extractor: balances of the current chunk, by address
    futs,             \* extractor: the storage futures of the current chunk
    updates,          \* extractor: the map being assembled
    bres,             \* extractor: the value get_accounts_at_block returned
    calls,            \* extractor: the bag of RPC calls issued so far
    request_idx,      \* single-call extractor: the i of its assembly loop
    range_start_key,  \* single-call extractor: start_key of get_storage_range
    range_all_slots,  \* single-call extractor: all_slots of get_storage_range
    frames,            \* client: the inbound frames read so far, in arrival order
    wpc,               \* client: position of the session task
    active_extractors, \* client: the active subscriptions, by subscription id
    queue,             \* client: the messages in the mpsc channel
    rx,                \* client: the consumer's receiver: "held", "dropped", or
                       \*         "ended" once recv has returned None
    received,          \* client: the messages the consumer has taken
    ws_sink,           \* client: the messages sent on the socket
    caller,            \* client: the outcome of the caller's subscribe or
                       \*         unsubscribe call, None before it
    version,   \* rpc: the dto::VersionParam of the request body
    at,        \* rpc: the value BlockOrTimestamp::try_from returned
    rpc_pc,    \* rpc: "input" before the conversion, "done" after it
    sim_first,   \* simulation: the GetAmountOutResult before any aggregate
    sim_self,    \* simulation: the GetAmountOutResult aggregated into
    sim_others   \* simulation: the results aggregated into it, in order

decoderVars == <<target, msg, res, pc>>
singleLocals == <<request_idx, range_start_key, range_all_slots>>
extractorVars == <<requests, fail, unique_requests, chunk_start, bpc, codes, balances,
                   futs, updates, bres, calls, singleLocals>>
clientVars == <<frames, wpc, active_extractors, queue, rx, received, ws_sink, caller>>
rpcVars == <<version, at, rpc_pc>>
simVars == <<sim_first, sim_self, sim_others>>
vars == <<target, msg, res, pc, requests, fail, unique_requests, chunk_start, bpc,
          codes, balances, futs, updates, bres, calls, singleLocals, clientVars,
          rpcVars, simVars>>

-----------------------------------------------------------------------------
(* Bounds of the enumerated inputs.                                        *)
MaxChanges == 3          \* per-transaction changes in a block message
MaxStorageTxs == 2       \* storage_changes entries in a BlockChanges message
MaxEntityChanges == 3    \* entity_changes in one transaction
MaxBalanceChanges == 3   \* balance_changes in one transaction
MaxAttributes == 3       \* attributes in one EntityChanges
MaxRequests == 3         \* requests handed to get_accounts_at_block
(* The batch sizes of get_accounts_at_block, scaled down from 100 and      *)
(* 10000 so that lists longer than one batch are within the bounds.        *)
MaxBatchSize == 2        \* max_batch_size: requests per chunk
StorageMaxBatchSize == 2 \* storage_max_batch_size: slots per eth_getStorageAt batch

-----------------------------------------------------------------------------
(* Option, Result and HashMap helpers.                                     *)
None == << >>
Some(x) == << x >>
IsSome(o) == Len(o) = 1
Unwrap(o) == o[1]

Ok(v) == [kind |-> "Ok", value |-> v]
DecodeError(r) == [kind |-> "DecodeError", reason |-> r]
Empty == [kind |-> "Empty", reason |-> "Empty"]
Panic(r) == [kind |-> "Panic", reason |-> r]
IsOk(r) == r.kind = "Ok"

EmptyMap == << >>
MapInsert(m, k, v) == [x \in (DOMAIN m) \cup {k} |-> IF x = k THEN v ELSE m[x]]

SeqsUpTo(S, n) == UNION {[1..k -> S] : k \in 0..n}

-----------------------------------------------------------------------------
(* Arguments of the decoder that are handed through unchanged.             *)
extractor == "vm:ambient"
chain == "ethereum"
protocol_system == "ambient"
finalized_block_height == 0
(* The caller-supplied registry HashMap<String, ProtocolType>: its keys.   *)
protocol_types == {"Pool"}

-----------------------------------------------------------------------------
(* impl TryFromMessage for ChangeType                                      *)
ChangeType_try_from_message(args) ==
    CASE args = "Creation" -> Ok("Creation")
      [] args = "Update" -> Ok("Update")
      [] args = "Deletion" -> Ok("Deletion")
      [] OTHER -> DecodeError("Unknown ChangeType enum member encountered")

(* impl TryFromMessage for AccountDelta: slots all become Some(value);     *)
(* an empty balance or code becomes None.                                  *)
AccountDelta_try_from_message(m, ch) ==
    LET change == ChangeType_try_from_message(m.change)
    IN  IF ~IsOk(change) THEN change
        ELSE Ok([chain |-> ch,
                 address |-> m.address,
                 slots |-> [k \in {m.slots[i].slot : i \in DOMAIN m.slots} |->
                              LET last == CHOOSE i \in DOMAIN m.slots :
                                            /\ m.slots[i].slot = k
                                            /\ \A j \in DOMAIN m.slots :
                                                 m.slots[j].slot = k => j <= i
                              IN  Some(m.slots[last].value)],
                 balance |-> IF m.balance # "" THEN Some(m.balance) ELSE None,
                 code |-> IF m.code # "" THEN Some(m.code) ELSE None,
                 change |-> change.value])

(* impl TryFromMessage for AccountBalance                                  *)
AccountBalance_try_from_message(m, addr, tx) ==
    Ok([token |-> m.token, balance |-> m.balance,
        modify_tx |-> tx.hash, account |-> addr])

(* chrono::NaiveDateTime::from_timestamp_opt(msg.ts as i64, 0): None when  *)
(* the seconds are outside the representable range.                        *)
from_timestamp_opt(ts) == IF ts = "ts_out_of_range" THEN None ELSE Some(ts)

(* impl TryFromMessage for Block                                           *)
Block_try_from_message(m, ch) ==
    LET ts == from_timestamp_opt(m.ts)
    IN  IF ~IsSome(ts) THEN DecodeError("Failed to convert timestamp to datetime!")
        ELSE Ok([chain |-> ch, number |-> m.number, hash |-> m.hash,
                 parent_hash |-> m.parent_hash, ts |-> Unwrap(ts)])

(* impl TryFromMessage for Transaction                                     *)
Transaction_try_from_message(m, block_hash) ==
    Ok([hash |-> m.hash, block_hash |-> block_hash, from |-> m.from,
        to |-> IF m.to # "" THEN Some(m.to) ELSE None,
        index |-> m.index])

(* String::from_utf8 on the bytes of a component id.                       *)
InvalidUtf8 == "\\xff"
from_utf8(bytes) ==
    IF bytes = InvalidUtf8 THEN DecodeError("invalid utf-8 sequence") ELSE Ok(bytes)

(* A component balance that does not record the transaction it came with.  *)
ComponentBalance_without_tx(m, tx) ==
    LET id == from_utf8(m.component_id)
    IN  IF ~IsOk(id) THEN id
        ELSE Ok([token |-> m.token, balance |-> m.balance,
                 modify_tx |-> "0x00", component_id |-> id.value])

(* impl TryFromMessage for ComponentBalance                                *)
ComponentBalance_try_from_message(m, tx) ==
    LET id == from_utf8(m.component_id)
    IN  IF ~IsOk(id) THEN id
        ELSE Ok([token |-> m.token, balance |-> m.balance,
                 modify_tx |-> tx.hash, component_id |-> id.value])

(* The component decoder without the registry lookup.                      *)
ProtocolComponent_registry_unchecked(m, ch, system, types, tx_hash, creation_ts) ==
    IF ~IsSome(m.protocol_type) THEN DecodeError("Missing protocol type")
    ELSE Ok([id |-> m.id, protocol_type_name |-> Unwrap(m.protocol_type),
             protocol_system |-> system, tokens |-> m.tokens,
             contract_addresses |-> m.contracts, static_attributes |-> EmptyMap,
             chain |-> ch, change |-> m.change,
             creation_tx |-> tx_hash, created_at |-> creation_ts])

(* impl TryFromMessage for ProtocolComponent                               *)
ProtocolComponent_try_from_message(m, ch, system, types, tx_hash, creation_ts) ==
    IF ~IsSome(m.protocol_type) THEN DecodeError("Missing protocol type")
    ELSE IF Unwrap(m.protocol_type) \notin types
         THEN DecodeError("Unknown protocol type name")
    ELSE LET change == ChangeType_try_from_message(m.change)
         IN  IF ~IsOk(change) THEN change
             ELSE Ok([id |-> m.id,
                      protocol_type_name |-> Unwrap(m.protocol_type),
                      protocol_system |-> system,
                      tokens |-> m.tokens,
                      contract_addresses |-> m.contracts,
                      static_attributes |->
                          [n \in {m.static_att[i].name : i \in DOMAIN m.static_att} |->
                             LET last == CHOOSE i \in DOMAIN m.static_att :
                                           /\ m.static_att[i].name = n
                                           /\ \A j \in DOMAIN m.static_att :
                                                m.static_att[j].name = n => j <= i
                             IN  m.static_att[last].value],
                      chain |-> ch,
                      change |-> change.value,
                      creation_tx |-> tx_hash,
                      created_at |-> creation_ts])

(* An attribute loop that keeps the first value of an attribute name.      *)
RECURSIVE StateDeltaAttributes_first_value_kept(_, _, _)
StateDeltaAttributes_first_value_kept(attributes, updated, deleted) ==
    IF attributes = << >> THEN Ok([updates |-> updated, deletions |-> deleted])
    ELSE LET attribute == Head(attributes)
             change == ChangeType_try_from_message(attribute.change)
         IN  IF ~IsOk(change) THEN change
             ELSE IF change.value \in {"Update", "Creation"}
                  THEN StateDeltaAttributes_first_value_kept(Tail(attributes),
                           IF attribute.name \in DOMAIN updated THEN updated
                           ELSE MapInsert(updated, attribute.name, attribute.value),
                           deleted)
                  ELSE StateDeltaAttributes_first_value_kept(Tail(attributes), updated,
                           deleted \cup {attribute.name})

(* The attribute loop of ProtocolComponentStateDelta::try_from_message.    *)
RECURSIVE StateDeltaAttributes(_, _, _)
StateDeltaAttributes(attributes, updated, deleted) ==
    IF attributes = << >> THEN Ok([updates |-> updated, deletions |-> deleted])
    ELSE LET attribute == Head(attributes)
             change == ChangeType_try_from_message(attribute.change)
         IN  IF ~IsOk(change) THEN change
             ELSE IF change.value \in {"Update", "Creation"}
                  THEN StateDeltaAttributes(Tail(attributes),
                           MapInsert(updated, attribute.name, attribute.value),
                           deleted)
                  ELSE StateDeltaAttributes(Tail(attributes), updated,
                           deleted \cup {attribute.name})

(* impl TryFromMessage for ProtocolComponentStateDelta                     *)
ProtocolComponentStateDelta_try_from_message(m) ==
    LET r == StateDeltaAttributes(m.attributes, EmptyMap, {})
    IN  IF ~IsOk(r) THEN r
        ELSE Ok([component_id |-> m.component_id,
                 updated_attributes |-> r.value.updates,
                 deleted_attributes |-> r.value.deletions])

(* impl TryFromMessage for EntryPoint                                      *)
EntryPoint_try_from_message(m) ==
    Ok([external_id |-> m.id, target |-> m.target, signature |-> m.signature])

(* impl TryFromMessage for TracingParams                                   *)
TracingParams_try_from_message(m) ==
    IF ~IsSome(m.trace_data)
    THEN DecodeError("Missing trace data in EntryPointParams")
    ELSE Ok([caller |-> Unwrap(m.trace_data).caller,
             calldata |-> Unwrap(m.trace_data).calldata])

-----------------------------------------------------------------------------
(* The loops of the per-transaction decoders.  Each returns on the first   *)
(* error (the ? operator) and otherwise inserts into its HashMap, a later  *)
(* insert under an existing key replacing the earlier value.               *)

(* for change in msg.component_changes: new_protocol_components.insert     *)
RECURSIVE ParseComponents(_, _, _, _, _, _)
ParseComponents(changes, ch, system, types, tx, block) ==
    IF changes = << >> THEN Ok(EmptyMap)
    ELSE LET n == Len(changes)
             rest == ParseComponents(SubSeq(changes, 1, n - 1), ch, system, types, tx, block)
         IN  IF ~IsOk(rest) THEN rest
             ELSE LET component == ProtocolComponent_try_from_message(
                                       changes[n], ch, system, types, tx.hash, block.ts)
                  IN  IF ~IsOk(component) THEN component
                      ELSE Ok(MapInsert(rest.value, component.value.id, component.value))

(* for contract_change in msg.contract_changes: account_updates.insert     *)
RECURSIVE ParseAccountUpdates(_, _)
ParseAccountUpdates(changes, ch) ==
    IF changes = << >> THEN Ok(EmptyMap)
    ELSE LET n == Len(changes)
             rest == ParseAccountUpdates(SubSeq(changes, 1, n - 1), ch)
         IN  IF ~IsOk(rest) THEN rest
             ELSE LET update == AccountDelta_try_from_message(changes[n], ch)
                  IN  IF ~IsOk(update) THEN update
                      ELSE Ok(MapInsert(rest.value, update.value.address, update.value))

(* The state loop with a vacant-only insert: the first delta is kept.      *)
RECURSIVE ParseStateUpdates_first_wins(_)
ParseStateUpdates_first_wins(changes) ==
    IF changes = << >> THEN Ok(EmptyMap)
    ELSE LET n == Len(changes)
             rest == ParseStateUpdates_first_wins(SubSeq(changes, 1, n - 1))
         IN  IF ~IsOk(rest) THEN rest
             ELSE LET state == ProtocolComponentStateDelta_try_from_message(changes[n])
                  IN  IF ~IsOk(state) THEN state
                      ELSE IF state.value.component_id \in DOMAIN rest.value THEN rest
                      ELSE Ok(MapInsert(rest.value, state.value.component_id, state.value))

(* for state_msg in msg.entity_changes: state_updates.entry(id): a vacant  *)
(* entry is filled, an occupied one is overwritten (with a warning).       *)
RECURSIVE ParseStateUpdates(_)
ParseStateUpdates(changes) ==
    IF changes = << >> THEN Ok(EmptyMap)
    ELSE LET n == Len(changes)
             rest == ParseStateUpdates(SubSeq(changes, 1, n - 1))
         IN  IF ~IsOk(rest) THEN rest
             ELSE LET state == ProtocolComponentStateDelta_try_from_message(changes[n])
                  IN  IF ~IsOk(state) THEN state
                      ELSE Ok(MapInsert(rest.value, state.value.component_id, state.value))

(* The balance loop with the component's token map replaced, not extended. *)
RECURSIVE ParseBalanceChanges_map_replaced(_, _)
ParseBalanceChanges_map_replaced(changes, tx) ==
    IF changes = << >> THEN Ok(EmptyMap)
    ELSE LET n == Len(changes)
             rest == ParseBalanceChanges_map_replaced(SubSeq(changes, 1, n - 1), tx)
         IN  IF ~IsOk(rest) THEN rest
             ELSE LET balance == ComponentBalance_try_from_message(changes[n], tx)
                  IN  IF ~IsOk(balance) THEN balance
                      ELSE Ok(MapInsert(rest.value, balance.value.component_id,
                                 MapInsert(EmptyMap, changes[n].token, balance.value)))

(* for balance_change in msg.balance_changes:                              *)
(*   balance_changes.entry(component_id).or_default().insert(token, b)     *)
RECURSIVE ParseBalanceChanges(_, _)
ParseBalanceChanges(changes, tx) ==
    IF changes = << >> THEN Ok(EmptyMap)
    ELSE LET n == Len(changes)
             rest == ParseBalanceChanges(SubSeq(changes, 1, n - 1), tx)
         IN  IF ~IsOk(rest) THEN rest
             ELSE LET balance == ComponentBalance_try_from_message(changes[n], tx)
                  IN  IF ~IsOk(balance) THEN balance
                      ELSE LET id == balance.value.component_id
                               token_balances == IF id \in DOMAIN rest.value
                                                 THEN rest.value[id] ELSE EmptyMap
                           IN  Ok(MapInsert(rest.value, id,
                                     MapInsert(token_balances, changes[n].token,
                                               balance.value)))

(* for contract_change in msg.contract_changes, for balance_change in its  *)
(* token_balances: account_balance_changes.entry(addr).or_default().insert *)
RECURSIVE ParseTokenBalances(_, _, _, _)
ParseTokenBalances(token_balances, addr, tx, acc) ==
    IF token_balances = << >> THEN acc
    ELSE LET balance == AccountBalance_try_from_message(Head(token_balances), addr, tx).value
             of_account == IF addr \in DOMAIN acc THEN acc[addr] ELSE EmptyMap
         IN  ParseTokenBalances(Tail(token_balances), addr, tx,
                 MapInsert(acc, addr, MapInsert(of_account, Head(token_balances).token, balance)))

RECURSIVE ParseAccountBalanceChanges(_, _, _)
ParseAccountBalanceChanges(changes, tx, acc) ==
    IF changes = << >> THEN Ok(acc)
    ELSE ParseAccountBalanceChanges(Tail(changes), tx,
             ParseTokenBalances(Head(changes).token_balances, Head(changes).address, tx, acc))

(* for msg_entrypoint in msg.entrypoints:                                  *)
(*   entrypoints.entry(component_id).or_default().insert(entrypoint)       *)
RECURSIVE ParseEntrypoints(_)
ParseEntrypoints(eps) ==
    IF eps = << >> THEN Ok(EmptyMap)
    ELSE LET n == Len(eps)
             rest == ParseEntrypoints(SubSeq(eps, 1, n - 1)).value
             id == eps[n].component_id
             old == IF id \in DOMAIN rest THEN rest[id] ELSE {}
         IN  Ok(MapInsert(rest, id, old \cup {EntryPoint_try_from_message(eps[n]).value}))

(* for msg_entrypoint_params in msg.entrypoint_params:                     *)
(*   entrypoint_params.entry(entrypoint_id).or_default()                   *)
(*                    .insert((tracing_data, component_id))                *)
RECURSIVE ParseEntrypointParams(_)
ParseEntrypointParams(params) ==
    IF params = << >> THEN Ok(EmptyMap)
    ELSE LET n == Len(params)
             rest == ParseEntrypointParams(SubSeq(params, 1, n - 1))
         IN  IF ~IsOk(rest) THEN rest
             ELSE LET tracing_data == TracingParams_try_from_message(params[n])
                      id == params[n].entrypoint_id
                      old == IF id \in DOMAIN rest.value THEN rest.value[id] ELSE {}
                  IN  IF ~IsOk(tracing_data) THEN tracing_data
                      ELSE Ok(MapInsert(rest.value, id,
                                 old \cup {<<tracing_data.value, params[n].component_id>>}))

-----------------------------------------------------------------------------
(* impl TryFromMessage for ProtocolChangesWithTx: msg.tx.expect(..), then  *)
(* the component, state and balance loops in that order.                   *)
ProtocolChangesWithTx_try_from_message(m, block, system, types) ==
    IF ~IsSome(m.tx) THEN Panic("TransactionEntityChanges should have a transaction")
    ELSE LET tx == Transaction_try_from_message(Unwrap(m.tx), block.hash).value
             new_protocol_components ==
                 ParseComponents(m.component_changes, block.chain, system, types, tx, block)
             state_updates == ParseStateUpdates(m.entity_changes)
             component_balances == ParseBalanceChanges(m.balance_changes, tx)
         IN  IF ~IsOk(new_protocol_components) THEN new_protocol_components
             ELSE IF ~IsOk(state_updates) THEN state_updates
             ELSE IF ~IsOk(component_balances) THEN component_balances
             ELSE Ok([new_protocol_components |-> new_protocol_components.value,
                      protocol_states |-> state_updates.value,
                      balance_changes |-> component_balances.value,
                      tx |-> tx])

(* impl TryFromMessage for TxWithChanges: msg.tx.expect(..), then the      *)
(* loops over components, account updates, state updates, component        *)
(* balances, account balances, entrypoints and entrypoint params.          *)
TxWithChanges_try_from_message(m, block, system, types) ==
    IF ~IsSome(m.tx) THEN Panic("TransactionChanges should have a transaction")
    ELSE LET tx == Transaction_try_from_message(Unwrap(m.tx), block.hash).value
             new_protocol_components ==
                 ParseComponents(m.component_changes, block.chain, system, types, tx, block)
             account_updates == ParseAccountUpdates(m.contract_changes, block.chain)
             state_updates == ParseStateUpdates(m.entity_changes)
             balance_changes == ParseBalanceChanges(m.balance_changes, tx)
             account_balance_changes ==
                 ParseAccountBalanceChanges(m.contract_changes, tx, EmptyMap)
             entrypoints == ParseEntrypoints(m.entrypoints)
             entrypoint_params == ParseEntrypointParams(m.entrypoint_params)
         IN  IF ~IsOk(new_protocol_components) THEN new_protocol_components
             ELSE IF ~IsOk(account_updates) THEN account_updates
             ELSE IF ~IsOk(state_updates) THEN state_updates
             ELSE IF ~IsOk(balance_changes) THEN balance_changes
             ELSE IF ~IsOk(entrypoint_params) THEN entrypoint_params
             ELSE Ok([tx |-> tx,
                      protocol_components |-> new_protocol_components.value,
                      account_deltas |-> account_updates.value,
                      state_updates |-> state_updates.value,
                      balance_changes |-> balance_changes.value,
                      account_balance_changes |-> account_balance_changes.value,
                      entrypoints |-> entrypoints.value,
                      entrypoint_params |-> entrypoint_params.value])

(* impl TryFromMessage for TxWithStorageChanges: msg.tx.expect(..), then   *)
(* one map of slots per contract, a later contract entry for an address    *)
(* replacing the earlier one.                                              *)
RECURSIVE ParseSlots(_, _)
ParseSlots(slots, acc) ==
    IF slots = << >> THEN acc
    ELSE ParseSlots(Tail(slots), MapInsert(acc, Head(slots).slot, Head(slots).value))

RECURSIVE ParseStorageChanges(_, _)
ParseStorageChanges(changes, acc) ==
    IF changes = << >> THEN acc
    ELSE ParseStorageChanges(Tail(changes),
             MapInsert(acc, Head(changes).address, ParseSlots(Head(changes).slots, EmptyMap)))

TxWithStorageChanges_try_from_message(m, block) ==
    IF ~IsSome(m.tx) THEN Panic("TransactionChanges should have a transaction")
    ELSE Ok([tx |-> Transaction_try_from_message(Unwrap(m.tx), block.hash).value,
             storage_changes |-> ParseStorageChanges(m.storage_changes, EmptyMap)])

-----------------------------------------------------------------------------
(* slice::sort_unstable_by_key(|update| update.tx.index): the outputs the  *)
(* call may produce.  The result is a permutation of the input ordered by  *)
(* the key; the relative order of elements with equal keys is not          *)
(* specified ("may reorder equal elements").                               *)
IndexPermutations(n) == {p \in [1..n -> 1..n] : \A i, j \in 1..n : i # j => p[i] # p[j]}

IsSortedByTxIndex(v) == \A i, j \in DOMAIN v : i < j => v[i].tx.index <= v[j].tx.index

(* The list left in message order.                                         *)
sort_omitted(v) == {v}

sort_unstable_by_key(v) ==
    {w \in {[i \in DOMAIN v |-> v[p[i]]] : p \in IndexPermutations(Len(v))} :
        IsSortedByTxIndex(w)}

-----------------------------------------------------------------------------
(* msg.changes.into_iter().map(|change| { change.tx.as_ref().ok_or_else(   *)
(*     DecodeError("... misses a transaction"))?;                          *)
(*     TxWithChanges::try_from_message(..) }).collect::<Result<Vec<_>>>()  *)
(* The collect stops at the first error in message order.                  *)
RECURSIVE CollectTxWithChanges(_, _, _, _)
CollectTxWithChanges(changes, block, system, types) ==
    IF changes = << >> THEN Ok(<< >>)
    ELSE LET n == Len(changes)
             rest == CollectTxWithChanges(SubSeq(changes, 1, n - 1), block, system, types)
         IN  IF ~IsOk(rest) THEN rest
             ELSE IF ~IsSome(changes[n].tx)
                  THEN DecodeError("TransactionEntityChanges misses a transaction")
             ELSE LET r == TxWithChanges_try_from_message(changes[n], block, system, types)
                  IN  IF ~IsOk(r) THEN r ELSE Ok(Append(rest.value, r.value))

(* The same closure of BlockEntityChanges, over ProtocolChangesWithTx.     *)
RECURSIVE CollectProtocolChangesWithTx(_, _, _, _)
CollectProtocolChangesWithTx(changes, block, system, types) ==
    IF changes = << >> THEN Ok(<< >>)
    ELSE LET n == Len(changes)
             rest == CollectProtocolChangesWithTx(SubSeq(changes, 1, n - 1),
                                                  block, system, types)
         IN  IF ~IsOk(rest) THEN rest
             ELSE IF ~IsSome(changes[n].tx)
                  THEN DecodeError("TransactionEntityChanges misses a transaction")
             ELSE LET r == ProtocolChangesWithTx_try_from_message(
                               changes[n], block, system, types)
                  IN  IF ~IsOk(r) THEN r ELSE Ok(Append(rest.value, r.value))

(* msg.storage_changes.into_iter().map(|change|                            *)
(*     TxWithStorageChanges::try_from_message((change, &block))).collect() *)
RECURSIVE CollectTxWithStorageChanges(_, _)
CollectTxWithStorageChanges(changes, block) ==
    IF changes = << >> THEN Ok(<< >>)
    ELSE LET n == Len(changes)
             rest == CollectTxWithStorageChanges(SubSeq(changes, 1, n - 1), block)
         IN  IF ~IsOk(rest) THEN rest
             ELSE LET r == TxWithStorageChanges_try_from_message(changes[n], block)
                  IN  IF ~IsOk(r) THEN r ELSE Ok(Append(rest.value, r.value))

(* The loop of BlockContractChanges::try_from_message: the body runs under *)
(* `if let Some(tx) = change.tx` and has no else branch.                   *)
RECURSIVE CollectAccountChangesWithTx(_, _, _, _, _)
CollectAccountChangesWithTx(changes, block, ch, system, types) ==
    IF changes = << >> THEN Ok(<< >>)
    ELSE LET n == Len(changes)
             change == changes[n]
             rest == CollectAccountChangesWithTx(SubSeq(changes, 1, n - 1),
                                                 block, ch, system, types)
         IN  IF ~IsOk(rest) THEN rest
             ELSE IF ~IsSome(change.tx) THEN rest
             ELSE LET tx == Transaction_try_from_message(Unwrap(change.tx), block.hash).value
                      account_updates == ParseAccountUpdates(change.contract_changes, ch)
                      protocol_components ==
                          ParseComponents(change.component_changes, ch, system, types, tx, block)
                      balances_changes == ParseBalanceChanges(change.balance_changes, tx)
                      account_balance_changes ==
                          ParseAccountBalanceChanges(change.contract_changes, tx, EmptyMap)
                  IN  IF ~IsOk(account_updates) THEN account_updates
                      ELSE IF ~IsOk(protocol_components) THEN protocol_components
                      ELSE IF ~IsOk(balances_changes) THEN balances_changes
                      ELSE Ok(Append(rest.value,
                                 [account_deltas |-> account_updates.value,
                                  protocol_components |-> protocol_components.value,
                                  component_balances |-> balances_changes.value,
                                  account_balances |-> account_balance_changes.value,
                                  tx |-> tx]))

-----------------------------------------------------------------------------
(* The block-level decoders.  Each yields the set of values the call may   *)
(* return: one value, except for the orders sort_unstable_by_key may pick. *)

(* impl TryFromMessage for BlockContractChanges                            *)
BlockContractChanges_try_from_message(m, ext, ch, system, types, height) ==
    IF ~IsSome(m.block) THEN {Empty}
    ELSE LET block == Block_try_from_message(Unwrap(m.block), ch)
         IN  IF ~IsOk(block) THEN {block}
             ELSE LET tx_updates == CollectAccountChangesWithTx(
                                        m.changes, block.value, ch, system, types)
                  IN  IF ~IsOk(tx_updates) THEN {tx_updates}
                      ELSE {Ok([extractor |-> ext, chain |-> ch, block |-> block.value,
                                finalized_block_height |-> height, revert |-> FALSE,
                                tx_updates |-> sorted]) :
                              sorted \in sort_unstable_by_key(tx_updates.value)}

(* impl TryFromMessage for BlockEntityChanges                              *)
BlockEntityChanges_try_from_message(m, ext, ch, system, types, height) ==
    IF ~IsSome(m.block) THEN {Empty}
    ELSE LET block == Block_try_from_message(Unwrap(m.block), ch)
         IN  IF ~IsOk(block) THEN {block}
             ELSE LET txs_with_update == CollectProtocolChangesWithTx(
                                             m.changes, block.value, system, types)
                  IN  IF ~IsOk(txs_with_update) THEN {txs_with_update}
                      ELSE {Ok([extractor |-> ext, chain |-> ch, block |-> block.value,
                                finalized_block_height |-> height, revert |-> FALSE,
                                txs_with_update |-> sorted]) :
                              sorted \in sort_unstable_by_key(txs_with_update.value)}

(* impl TryFromMessage for BlockChanges: the per-transaction changes are   *)
(* collected and sorted, then the storage changes are collected and handed *)
(* to the constructor as collected.                                        *)
BlockChanges_try_from_message(m, ext, ch, system, types, height) ==
    IF ~IsSome(m.block) THEN {Empty}
    ELSE LET block == Block_try_from_message(Unwrap(m.block), ch)
         IN  IF ~IsOk(block) THEN {block}
             ELSE LET txs_with_update == CollectTxWithChanges(
                                             m.changes, block.value, system, types)
                      block_storage_changes ==
                          CollectTxWithStorageChanges(m.storage_changes, block.value)
                  IN  IF ~IsOk(txs_with_update) THEN {txs_with_update}
                      ELSE IF ~IsOk(block_storage_changes) THEN {block_storage_changes}
                      ELSE {Ok([extractor |-> ext, chain |-> ch, block |-> block.value,
                                finalized_block_height |-> height, revert |-> FALSE,
                                txs_with_update |-> sorted,
                                block_storage_changes |-> block_storage_changes.value]) :
                              sorted \in sort_unstable_by_key(txs_with_update.value)}

-----------------------------------------------------------------------------
(* The enumerated substreams messages.                                     *)
pbTransaction(h, i) == [hash |-> h, from |-> "0xf0", to |-> "0xf1", index |-> i]

pbChange(tx, components, entities, balance_changes) ==
    [tx |-> tx, component_changes |-> components, contract_changes |-> << >>,
     entity_changes |-> entities, balance_changes |-> balance_changes,
     entrypoints |-> << >>, entrypoint_params |-> << >>]

pbComponent(id, type) ==
    [id |-> id, protocol_type |-> type, change |-> "Creation",
     tokens |-> <<"t1", "t2">>, contracts |-> << >>, static_att |-> << >>]

(* A ContractChange with token balances, and a change of a transaction     *)
(* that creates a component, sets two of its balances and changes a        *)
(* contract with two token balances.                                       *)
pbContractChange(address, token_balances) ==
    [address |-> address, balance |-> "0x05", code |-> "", slots |-> << >>,
     change |-> "Update", token_balances |-> token_balances]

pbFullChange(tx) ==
    [tx |-> tx,
     component_changes |-> <<pbComponent("poolA", Some("Pool"))>>,
     contract_changes |->
         <<pbContractChange("0xc0", <<[token |-> "t1", balance |-> "0x07"],
                                      [token |-> "t2", balance |-> "0x08"]>>)>>,
     entity_changes |-> << >>,
     balance_changes |-> <<[component_id |-> "poolA", token |-> "t1", balance |-> "0x01"],
                           [component_id |-> "poolA", token |-> "t2", balance |-> "0x02"]>>,
     entrypoints |-> << >>, entrypoint_params |-> << >>]

pbBlock(ts) == [number |-> 1, hash |-> "0xb1", parent_hash |-> "0xb0", ts |-> ts]

(* The decoded block the per-transaction decoders are handed.              *)
DecodedBlock == Block_try_from_message(pbBlock("ts_ok"), chain).value

Blocks == {None, Some(pbBlock("ts_ok")), Some(pbBlock("ts_out_of_range"))}

(* Per-transaction changes of a block message: with and without a tx, two  *)
(* of them (0xa and 0xd) with the same tx.index, with a registered and an  *)
(* unregistered protocol type.                                             *)
BlockLevelChanges ==
    {pbChange(tx, << >>, << >>, << >>) :
        tx \in {None, Some(pbTransaction("0xa", 0)), Some(pbTransaction("0xb", 1))}}
    \cup {pbChange(Some(pbTransaction("0xd", 0)),
                   <<pbComponent("poolA", Some("Pool"))>>, << >>, << >>),
          pbChange(Some(pbTransaction("0xe", 1)),
                   <<pbComponent("poolB", Some("Unregistered"))>>, << >>, << >>),
          pbChange(None, <<pbComponent("poolB", Some("Unregistered"))>>, << >>, << >>),
          pbFullChange(Some(pbTransaction("0xc", 2)))}

pbStorageTx(tx) ==
    [tx |-> tx,
     storage_changes |-> <<[address |-> "0xc0",
                            slots |-> <<[slot |-> "0x01", value |-> "0x01"]>>]>>]

StorageTxs ==
    {pbStorageTx(tx) :
        tx \in {None, Some(pbTransaction("0xa", 0)), Some(pbTransaction("0xb", 1))}}

(* BlockChanges messages: every list of changes without storage changes,  *)
(* and every list of storage changes after at most one change.             *)
BlockMessages ==
    {[block |-> b, changes |-> c, storage_changes |-> << >>] :
        b \in Blocks, c \in SeqsUpTo(BlockLevelChanges, MaxChanges)}
    \cup {[block |-> b, changes |-> c, storage_changes |-> s] :
        b \in Blocks, c \in SeqsUpTo(BlockLevelChanges, 1),
        s \in SeqsUpTo(StorageTxs, MaxStorageTxs)}

(* The shapes without a storage_changes field.                             *)
BlockMessagesWithoutStorage ==
    {[block |-> b, changes |-> c, storage_changes |-> << >>] :
        b \in Blocks, c \in SeqsUpTo(BlockLevelChanges, MaxChanges)}

(* Attributes and state deltas.                                            *)
pbAttribute(n, v, c) == [name |-> n, value |-> v, change |-> c]

Attributes ==
    {pbAttribute(n, v, "Update") : n \in {"x", "y"}, v \in {"0x01", "0x03"}}
    \cup {pbAttribute(n, "0x01", "Creation") : n \in {"x", "y"}}
    \cup {pbAttribute(n, "", c) : n \in {"x", "y"}, c \in {"Deletion", "Unspecified"}}

EntityMessages ==
    {[component_id |-> "poolA", attributes |-> a] :
        a \in SeqsUpTo(Attributes, MaxAttributes)}

TxLevelEntityChanges ==
    {[component_id |-> c, attributes |-> a] :
        c \in {"poolA", "poolB"},
        a \in {<<pbAttribute("x", "", "Deletion")>>,
               <<pbAttribute("x", "0x03", "Update")>>,
               <<pbAttribute("x", "0x01", "Update"), pbAttribute("y", "", "Deletion")>>}}
    \cup {[component_id |-> "poolA",
           attributes |-> <<pbAttribute("y", "0x02", "Creation")>>],
          [component_id |-> "poolB",
           attributes |-> <<pbAttribute("x", "0x01", "Unspecified")>>]}

TxLevelBalanceChanges ==
    {[component_id |-> c, token |-> "t1", balance |-> b] :
        c \in {"poolA", "poolB"}, b \in {"0x01", "0x02"}}
    \cup {[component_id |-> "poolA", token |-> "t2", balance |-> "0x01"],
          [component_id |-> InvalidUtf8, token |-> "t1", balance |-> "0x01"]}

TxMessages ==
    {pbChange(Some(pbTransaction("0xa", 0)), << >>, e, << >>) :
        e \in SeqsUpTo(TxLevelEntityChanges, MaxEntityChanges)}
    \cup {pbChange(Some(pbTransaction("0xa", 0)), << >>, << >>, b) :
        b \in SeqsUpTo(TxLevelBalanceChanges, MaxBalanceChanges)}
    \cup {pbChange(None, << >>, << >>, << >>), pbFullChange(Some(pbTransaction("0xc", 2)))}

-----------------------------------------------------------------------------
(* The decoder as a state machine: an input message, then one call.        *)
NoResult == [kind |-> "None"]

(* The extractor's variables while the decoder runs.                       *)
ExtractorIdle ==
    /\ requests = << >> /\ fail = {} /\ unique_requests = << >> /\ chunk_start = 1
    /\ bpc = "idle" /\ codes = EmptyMap /\ balances = EmptyMap /\ futs = << >>
    /\ updates = EmptyMap /\ bres = NoResult /\ calls = EmptyBag
    /\ request_idx = 1 /\ range_start_key = "" /\ range_all_slots = EmptyMap

(* The variables of the version resolution while another component runs.   *)
RpcIdle == version = << >> /\ at = NoResult /\ rpc_pc = "idle"
SimIdle == sim_first = NoResult /\ sim_self = NoResult /\ sim_others = << >>

(* The client's variables while the decoder or an extractor runs.          *)
ClientIdle ==
    /\ frames = << >> /\ wpc = "idle"
    /\ active_extractors = EmptyMap /\ queue = << >> /\ rx = "held"
    /\ received = << >> /\ ws_sink = << >> /\ caller = None

DecoderInit ==
    /\ ExtractorIdle
    /\ ClientIdle
    /\ RpcIdle
    /\ SimIdle
    /\ pc = "input"
    /\ res = NoResult
    /\ \/ target = "BlockChanges" /\ msg \in BlockMessages
       \/ target \in {"BlockEntityChanges", "BlockContractChanges"}
          /\ msg \in BlockMessagesWithoutStorage
       \/ target \in {"TxWithChanges", "ProtocolChangesWithTx"} /\ msg \in TxMessages
       \/ target = "ProtocolComponentStateDelta" /\ msg \in EntityMessages

Returns(r) ==
    /\ res' = r
    /\ pc' = "done"
    /\ UNCHANGED <<target, msg>>
    /\ UNCHANGED <<extractorVars, clientVars, rpcVars, simVars>>

DecodeBlockChanges ==
    /\ pc = "input" /\ target = "BlockChanges"
    /\ \E r \in BlockChanges_try_from_message(msg, extractor, chain, protocol_system,
                                              protocol_types, finalized_block_height) :
          Returns(r)

DecodeBlockEntityChanges ==
    /\ pc = "input" /\ target = "BlockEntityChanges"
    /\ \E r \in BlockEntityChanges_try_from_message(msg, extractor, chain, protocol_system,
                                                    protocol_types, finalized_block_height) :
          Returns(r)

DecodeBlockContractChanges ==
    /\ pc = "input" /\ target = "BlockContractChanges"
    /\ \E r \in BlockContractChanges_try_from_message(msg, extractor, chain, protocol_system,
                                                      protocol_types, finalized_block_height) :
          Returns(r)

DecodeTxWithChanges ==
    /\ pc = "input" /\ target = "TxWithChanges"
    /\ Returns(TxWithChanges_try_from_message(msg, DecodedBlock, protocol_system,
                                              protocol_types))

DecodeProtocolChangesWithTx ==
    /\ pc = "input" /\ target = "ProtocolChangesWithTx"
    /\ Returns(ProtocolChangesWithTx_try_from_message(msg, DecodedBlock, protocol_system,
                                                      protocol_types))

DecodeProtocolComponentStateDelta ==
    /\ pc = "input" /\ target = "ProtocolComponentStateDelta"
    /\ Returns(ProtocolComponentStateDelta_try_from_message(msg))

DecoderNext ==
    \/ DecodeBlockChanges
    \/ DecodeBlockEntityChanges
    \/ DecodeBlockContractChanges
    \/ DecodeTxWithChanges
    \/ DecodeProtocolChangesWithTx
    \/ DecodeProtocolComponentStateDelta

SpecDecoder == DecoderInit /\ [][DecoderNext]_vars

-----------------------------------------------------------------------------
(* Properties of the decoder.                                              *)
BlockTargets == {"BlockChanges", "BlockEntityChanges", "BlockContractChanges"}
TxTargets == {"TxWithChanges", "ProtocolChangesWithTx"}

Decoded == pc = "done" /\ IsOk(res)

(* The decoded per-transaction list of a block-level result.               *)
TxList == IF target = "BlockContractChanges" THEN res.value.tx_updates
          ELSE res.value.txs_with_update

(* The transactions of the input changes that carry one, in message order. *)
InputTxs(changes) ==
    LET HasTx(c) == IsSome(c.tx)
        with_tx == SelectSeq(changes, HasTx)
    IN  [i \in DOMAIN with_tx |-> Unwrap(with_tx[i].tx)]

Ascending(indices) == \A i, j \in DOMAIN indices : i < j => indices[i] <= indices[j]

IndicesOf(list) == [i \in DOMAIN list |-> list[i].tx.index]

(* C1: every block message that decodes successfully (BlockChanges,        *)
(* BlockEntityChanges, BlockContractChanges) yields a per-transaction list *)
(* in ascending tx.index order, whatever the order in the message.         *)
C1_TxsAscending ==
    (Decoded /\ target \in BlockTargets) => Ascending(IndicesOf(TxList))

(* A successful decode of a message whose changes arrive out of order.     *)
C1_Witness ==
    /\ Decoded /\ target \in BlockTargets
    /\ Len(TxList) = MaxChanges
    /\ ~Ascending([i \in DOMAIN InputTxs(msg.changes) |-> InputTxs(msg.changes)[i].index])

(* C2: every BlockChanges message that decodes successfully yields         *)
(* block_storage_changes in ascending tx.index order.                      *)
C2_StorageChangesAscending ==
    (Decoded /\ target = "BlockChanges")
        => Ascending(IndicesOf(res.value.block_storage_changes))

(* The hashes of the transactions of a list that have index k, in order.   *)
HashesAt(txs, k) ==
    LET AtK(t) == t.index = k
        sel == SelectSeq(txs, AtK)
    IN  [i \in DOMAIN sel |-> sel[i].hash]

(* C3: the ordering is stable: changes of one message with the same        *)
(* tx.index keep their relative message order in the decoded list.         *)
C3_OrderStable ==
    (Decoded /\ target \in BlockTargets)
        => \A k \in {t.index : t \in {InputTxs(msg.changes)[i] : i \in DOMAIN InputTxs(msg.changes)}} :
              HashesAt([i \in DOMAIN TxList |-> TxList[i].tx], k)
                  = HashesAt(InputTxs(msg.changes), k)

(* The state map of a per-transaction result.                              *)
StateUpdates == IF target = "TxWithChanges" THEN res.value.state_updates
                ELSE res.value.protocol_states

(* The last position of a sequence that satisfies a test on its element.   *)
LastIndex(seq, Test(_)) ==
    CHOOSE i \in DOMAIN seq : Test(seq[i]) /\ \A j \in DOMAIN seq : Test(seq[j]) => j <= i

S2_Deleted == [component_id |-> "poolA", attributes |-> <<pbAttribute("x", "", "Deletion")>>]
S2_Updated == [component_id |-> "poolA", attributes |-> <<pbAttribute("x", "0x03", "Update")>>]

(* C4: with several state deltas for one component_id in a transaction,    *)
(* state_updates[component_id] is exactly the last of them in message      *)
(* order, and the deltas of other components are unaffected; the delete    *)
(* then update of x leaves updated_attributes = {x: 0x03} and no deletion. *)
C4_LastStateDeltaWins ==
    (Decoded /\ target \in TxTargets)
        => /\ DOMAIN StateUpdates = {msg.entity_changes[i].component_id :
                                        i \in DOMAIN msg.entity_changes}
           /\ \A c \in DOMAIN StateUpdates :
                 LET Of(e) == e.component_id = c
                     last == msg.entity_changes[LastIndex(msg.entity_changes, Of)]
                 IN  StateUpdates[c] = ProtocolComponentStateDelta_try_from_message(last).value
           /\ (\E i, j \in DOMAIN msg.entity_changes :
                  i < j /\ msg.entity_changes[i] = S2_Deleted
                        /\ msg.entity_changes[j] = S2_Updated
                        /\ \A l \in DOMAIN msg.entity_changes :
                              l > j => msg.entity_changes[l].component_id # "poolA")
                 => /\ StateUpdates["poolA"].updated_attributes = [n \in {"x"} |-> "0x03"]
                    /\ StateUpdates["poolA"].deleted_attributes = {}

(* The deletion of x, a delta of another component, then the update of x.  *)
C4_Witness ==
    /\ Decoded /\ target \in TxTargets
    /\ Len(msg.entity_changes) = 3
    /\ msg.entity_changes[1] = S2_Deleted
    /\ msg.entity_changes[2].component_id = "poolB"
    /\ msg.entity_changes[3] = S2_Updated
    /\ StateUpdates["poolA"].deleted_attributes = {}

(* C5: with several balance changes for one (component_id, token) pair in  *)
(* a transaction, balance_changes[component_id][token] is the last of them *)
(* in message order and every other pair keeps its own last entry.         *)
C5_LastBalanceWins ==
    (Decoded /\ target \in TxTargets)
        => /\ DOMAIN res.value.balance_changes =
                 {msg.balance_changes[i].component_id : i \in DOMAIN msg.balance_changes}
           /\ \A c \in DOMAIN res.value.balance_changes :
                 /\ DOMAIN res.value.balance_changes[c] =
                       {msg.balance_changes[i].token :
                           i \in {j \in DOMAIN msg.balance_changes :
                                     msg.balance_changes[j].component_id = c}}
                 /\ \A t \in DOMAIN res.value.balance_changes[c] :
                       LET Of(b) == b.component_id = c /\ b.token = t
                           last == msg.balance_changes[LastIndex(msg.balance_changes, Of)]
                       IN  /\ res.value.balance_changes[c][t].balance = last.balance
                           /\ res.value.balance_changes[c][t].token = t
                           /\ res.value.balance_changes[c][t].component_id = c

(* Two entries for (poolA, t1) around an entry for (poolA, t2).            *)
C5_Witness ==
    /\ Decoded /\ target \in TxTargets
    /\ Len(msg.balance_changes) = 3
    /\ msg.balance_changes[1] = [component_id |-> "poolA", token |-> "t1", balance |-> "0x01"]
    /\ msg.balance_changes[2] = [component_id |-> "poolA", token |-> "t2", balance |-> "0x01"]
    /\ msg.balance_changes[3] = [component_id |-> "poolA", token |-> "t1", balance |-> "0x02"]
    /\ res.value.balance_changes["poolA"]["t1"].balance = "0x02"

(* A transaction of the message carries a new protocol component whose     *)
(* protocol_type.name is not a key of the registry.                        *)
HasUnregisteredComponent ==
    \E i \in DOMAIN msg.changes :
        /\ IsSome(msg.changes[i].tx)
        /\ \E j \in DOMAIN msg.changes[i].component_changes :
              LET type == msg.changes[i].component_changes[j].protocol_type
              IN  IsSome(type) /\ Unwrap(type) \notin protocol_types

C7_MissingTxIsDecodeError ==
    (pc = "done" /\ target \in BlockTargets /\ IsSome(msg.block)
        /\ \E i \in DOMAIN msg.changes : ~IsSome(msg.changes[i].tx))
        => res.kind = "DecodeError"

(* C8: the BlockChanges decoder returns a decoded value, Empty (exactly    *)
(* when the message has no block) or DecodeError, and never aborts.        *)
C8_BlockChangesNeverAborts ==
    (pc = "done" /\ target = "BlockChanges")
        => /\ res.kind \in {"Ok", "Empty", "DecodeError"}
           /\ res.kind = "Empty" <=> ~IsSome(msg.block)

(* C9: updated_attributes and deleted_attributes of a decoded state delta  *)
(* are disjoint.                                                           *)
C9_UpdatedDeletedDisjoint ==
    (Decoded /\ target = "ProtocolComponentStateDelta")
        => (DOMAIN res.value.updated_attributes) \cap res.value.deleted_attributes = {}

(* The attributes of the message with one of the given changes.            *)
AttributesWith(changes) ==
    {i \in DOMAIN msg.attributes : msg.attributes[i].change \in changes}

(* C30: a state delta with an attribute of change Unspecified fails with   *)
(* DecodeError; any other decodes, its updated_attributes holding for each *)
(* name with a Creation or Update attribute the value of the last such     *)
(* attribute in message order, and no other name, its deleted_attributes   *)
(* the names of the Deletion attributes.                                   *)
C30_AttributesByChange ==
    (pc = "done" /\ target = "ProtocolComponentStateDelta") =>
        IF AttributesWith({"Unspecified"}) # {}
        THEN res.kind = "DecodeError"
        ELSE /\ IsOk(res)
             /\ res.value.component_id = msg.component_id
             /\ DOMAIN res.value.updated_attributes =
                    {msg.attributes[i].name : i \in AttributesWith({"Creation", "Update"})}
             /\ \A i \in AttributesWith({"Creation", "Update"}) :
                    (\A j \in AttributesWith({"Creation", "Update"}) :
                        msg.attributes[j].name = msg.attributes[i].name => j <= i)
                    => res.value.updated_attributes[msg.attributes[i].name] =
                           msg.attributes[i].value
             /\ res.value.deleted_attributes =
                    {msg.attributes[i].name : i \in AttributesWith({"Deletion"})}

(* Two updates of x with different values, then a deletion of y: x has the *)
(* second value and y is deleted.                                          *)
C30_Witness ==
    /\ pc = "done" /\ target = "ProtocolComponentStateDelta"
    /\ msg.attributes = <<pbAttribute("x", "0x01", "Update"),
                          pbAttribute("x", "0x03", "Update"),
                          pbAttribute("y", "", "Deletion")>>
    /\ IsOk(res)
    /\ res.value.updated_attributes["x"] = "0x03"
    /\ res.value.deleted_attributes = {"y"}

(* The decoded change-sets of a result, one per transaction, the block     *)
(* they were decoded against, and the maps of a change-set under the names *)
(* the shape of the target gives them.                                     *)
ChangeSets ==
    IF target \in BlockTargets THEN TxList
    ELSE IF target \in TxTargets THEN <<res.value>>
    ELSE << >>
BlockOf == IF target \in BlockTargets THEN res.value.block ELSE DecodedBlock
ComponentsOf(u) ==
    IF target \in {"BlockEntityChanges", "ProtocolChangesWithTx"}
    THEN u.new_protocol_components ELSE u.protocol_components
ComponentBalancesOf(u) ==
    IF target = "BlockContractChanges" THEN u.component_balances ELSE u.balance_changes
AccountBalancesOf(u) ==
    IF target = "BlockContractChanges" THEN u.account_balances
    ELSE IF target \in {"BlockChanges", "TxWithChanges"} THEN u.account_balance_changes
    ELSE EmptyMap

(* C36: in every decoded change-set the transaction's block_hash is the    *)
(* hash of the decoded block, every new component has the transaction's    *)
(* hash as creation_tx and the block's timestamp as created_at, every      *)
(* component balance and account balance has the transaction's hash as     *)
(* modify_tx, and the balance under balance_changes[c][t] has component_id *)
(* c and token t.                                                          *)
C36_ReferentiallyConsistent ==
    Decoded =>
        \A i \in DOMAIN ChangeSets :
            LET u == ChangeSets[i]
            IN  /\ u.tx.block_hash = BlockOf.hash
                /\ \A c \in DOMAIN ComponentsOf(u) :
                      /\ ComponentsOf(u)[c].creation_tx = u.tx.hash
                      /\ ComponentsOf(u)[c].created_at = BlockOf.ts
                /\ \A c \in DOMAIN ComponentBalancesOf(u) :
                      \A t \in DOMAIN ComponentBalancesOf(u)[c] :
                          /\ ComponentBalancesOf(u)[c][t].modify_tx = u.tx.hash
                          /\ ComponentBalancesOf(u)[c][t].component_id = c
                          /\ ComponentBalancesOf(u)[c][t].token = t
                /\ \A a \in DOMAIN AccountBalancesOf(u) :
                      \A t \in DOMAIN AccountBalancesOf(u)[a] :
                          AccountBalancesOf(u)[a][t].modify_tx = u.tx.hash

(* A decoded BlockChanges of two transactions, the second of which creates *)
(* a component and carries two component balances and two account          *)
(* balances.                                                               *)
C36_Witness ==
    /\ Decoded /\ target = "BlockChanges"
    /\ Len(ChangeSets) = 2
    /\ ChangeSets[1].tx.hash = "0xa"
    /\ ChangeSets[2].tx.hash = "0xc"
    /\ DOMAIN ComponentsOf(ChangeSets[2]) = {"poolA"}
    /\ DOMAIN ComponentBalancesOf(ChangeSets[2])["poolA"] = {"t1", "t2"}
    /\ DOMAIN AccountBalancesOf(ChangeSets[2])["0xc0"] = {"t1", "t2"}

-----------------------------------------------------------------------------
(* The batched account extractor, EVMBatchAccountExtractor.                *)

(* An RPC call: its method and the parameters that vary; the block is the  *)
(* same in every call of one get_accounts_at_block.                        *)
Call(method, address, key, limit) ==
    [method |-> method, address |-> address, key |-> key, limit |-> limit]

GetCode(a) == Call("eth_getCode", a, "", 0)
GetBalance(a) == Call("eth_getBalance", a, "", 0)
GetStorageAt(a, slot) == Call("eth_getStorageAt", a, slot, 0)
StorageRangeLimit == 100000
StorageRangeAt(a, start_key) == Call("debug_storageRangeAt", a, start_key, StorageRangeLimit)
(* The sending of a JSON-RPC batch as such.                                *)
BatchSend == Call("batch.send", "", "", 0)

(* The shortest big-endian encoding: no byte at all for zero.              *)
to_be_bytes_trimmed(n) == IF n = 0 THEN << >> ELSE <<n>>

(* A 32-byte big-endian value, Uint::to_be_bytes::<32>.                    *)
to_be_bytes32(n) == [i \in 1..32 |-> IF i = 32 THEN n ELSE 0]
Zero32 == to_be_bytes32(0)
(* H256::zero(), the first start_key of a storage dump.                    *)
ZeroKey == "0x00"

(* The RPC replay: what the node answers to each call.                     *)
NodeCode(a) == IF a = "a1" THEN "0x6080" ELSE ""
NodeBalance(a) == IF a = "a1" THEN 5 ELSE 0
NodeStorageAt(a, slot) ==
    CASE a = "a1" /\ slot = "k1" -> to_be_bytes32(7)
      [] a = "a1" /\ slot = "k3" -> to_be_bytes32(9)
      [] a = "a2" /\ slot = "k1" -> <<1>>
      [] OTHER -> Zero32
NodeStorageRange(a, start_key) ==
    CASE a = "a1" /\ start_key = ZeroKey ->
             [storage |-> [k \in {"k1"} |-> to_be_bytes32(7)], next_key |-> Some("k2")]
      [] a = "a1" /\ start_key = "k2" ->
             [storage |-> [k \in {"k2", "k3"} |-> IF k = "k2" THEN Zero32 ELSE to_be_bytes32(9)],
              next_key |-> None]
      [] OTHER -> [storage |-> EmptyMap, next_key |-> None]

(* The error sets of the enumerated replays: no error, or one failing call. *)
Failures ==
    {{}, {BatchSend}, {GetBalance("a2")}, {GetStorageAt("a1", "k1")},
     {GetStorageAt("a1", "k3")}, {StorageRangeAt("a1", "k2")}}

(* The enumerated requests: StorageSnapshotRequest {address, slots}.       *)
Request(a, slots) == [address |-> a, slots |-> slots]
Requests ==
    {Request("a1", None), Request("a1", Some(<<"k1", "k2", "k3">>)),
     Request("a2", Some(<< >>)), Request("a2", Some(<<"k2", "k1">>))}

(* Two requests for one address whose slot lists have no slot in common.   *)
DisjointSlotLists ==
    <<Request("a2", Some(<<"k3">>)), Request("a2", Some(<<"k2", "k1">>))>>

RequestError(r) == [kind |-> "RequestError", reason |-> r]
UnknownError(r) == [kind |-> "UnknownError", reason |-> r]

Min(a, b) == IF a < b THEN a ELSE b

(* The list handed on without deduplication.                               *)
requests_as_given(reqs) == {reqs}

(* requests.iter().cloned().collect::<HashSet<_>>().into_iter().collect(): *)
(* each distinct request once, in the iteration order of the HashSet,      *)
(* which is not specified.                                                 *)
collect_unique(reqs) ==
    LET set == {reqs[i] : i \in DOMAIN reqs}
    IN  {order \in [1..Cardinality(set) -> set] :
            \A i, j \in DOMAIN order : i # j => order[i] # order[j]}

(* unique_requests.chunks(max_batch_size): the chunk that starts at start. *)
ChunkAt(start) ==
    SubSeq(unique_requests, start, Min(start + MaxBatchSize - 1, Len(unique_requests)))
Chunk == ChunkAt(chunk_start)

(* The bag of the calls of a sequence of calls.                            *)
RECURSIVE BagOfCalls(_)
BagOfCalls(cs) ==
    IF cs = << >> THEN EmptyBag ELSE SetToBag({Head(cs)}) (+) BagOfCalls(Tail(cs))

(* The calls batch_fetch_account_code_and_balance adds to its batch.       *)
RECURSIVE MetadataCalls(_)
MetadataCalls(chunk) ==
    IF chunk = << >> THEN << >>
    ELSE <<GetCode(Head(chunk).address), GetBalance(Head(chunk).address)>>
             \o MetadataCalls(Tail(chunk))

(* The collection loop of batch_fetch_account_code_and_balance: the code   *)
(* and the balance of each request by position, the first error returned.  *)
RECURSIVE CollectMetadata(_, _, _)
CollectMetadata(chunk, cs, bs) ==
    IF chunk = << >> THEN Ok([codes |-> cs, balances |-> bs])
    ELSE LET address == Head(chunk).address
         IN  IF GetCode(address) \in fail
             THEN RequestError("Failed to collect code request data")
             ELSE IF GetBalance(address) \in fail
             THEN RequestError("Failed to collect balance request data")
             ELSE CollectMetadata(Tail(chunk),
                      MapInsert(cs, address, NodeCode(address)),
                      MapInsert(bs, address, to_be_bytes32(NodeBalance(address))))

(* batch_fetch_account_code_and_balance: the value it returns.             *)
batch_fetch_account_code_and_balance(chunk) ==
    IF BatchSend \in fail THEN RequestError("Failed to send batch request")
    ELSE CollectMetadata(chunk, EmptyMap, EmptyMap)

(* A storage future, fetch_account_storage(block, size, request):          *)
(*   st               "sending" (an eth_getStorageAt batch is in flight),  *)
(*                    "paging" (a debug_storageRangeAt call is in flight)  *)
(*                    or "ready" (returned Ok(result));                    *)
(*   batch_start      position in slots of the batch in flight;            *)
(*   start_key        start_key of the page in flight;                     *)
(*   storage_requests the waiters pushed so far, each with the slot of its *)
(*                    call and whether it has been awaited to completion;  *)
(*   result           the map built so far.                                *)
Waiters(slot_batch) == [i \in DOMAIN slot_batch |-> [slot |-> slot_batch[i], awaited |-> FALSE]]

(* A batch that holds only the first slot of its chunk.                    *)
SlotBatch_first_only(slots, start) == SubSeq(slots, start, Min(start, Len(slots)))

SlotBatch(slots, start) == SubSeq(slots, start, Min(start + StorageMaxBatchSize - 1, Len(slots)))

StorageCalls(address, slot_batch) ==
    [i \in DOMAIN slot_batch |-> GetStorageAt(address, slot_batch[i])]

(* An empty slot list taken for "all slots".                               *)
FirstPoll_empty_as_all(request) ==
    IF ~IsSome(request.slots) \/ Unwrap(request.slots) = << >>
    THEN [st |-> "paging", batch_start |-> 0, start_key |-> ZeroKey,
          storage_requests |-> << >>, result |-> EmptyMap]
    ELSE [st |-> "sending", batch_start |-> 1, start_key |-> ZeroKey,
          storage_requests |-> Waiters(SlotBatch(Unwrap(request.slots), 1)),
          result |-> EmptyMap]

(* The first poll of the future: it runs to its first await.               *)
FirstPoll(request) ==
    IF ~IsSome(request.slots)
    THEN [st |-> "paging", batch_start |-> 0, start_key |-> ZeroKey,
          storage_requests |-> << >>, result |-> EmptyMap]
    ELSE IF Unwrap(request.slots) = << >>
    THEN [st |-> "ready", batch_start |-> 0, start_key |-> ZeroKey,
          storage_requests |-> << >>, result |-> EmptyMap]
    ELSE [st |-> "sending", batch_start |-> 1, start_key |-> ZeroKey,
          storage_requests |-> Waiters(SlotBatch(Unwrap(request.slots), 1)),
          result |-> EmptyMap]

(* The calls the future has issued when its first poll returns.            *)
FirstPollCalls(request) ==
    IF ~IsSome(request.slots) THEN <<StorageRangeAt(request.address, ZeroKey)>>
    ELSE StorageCalls(request.address, SlotBatch(Unwrap(request.slots), 1))

RECURSIVE FirstPollCallsOf(_)
FirstPollCallsOf(chunk) ==
    IF chunk = << >> THEN << >>
    ELSE FirstPollCalls(Head(chunk)) \o FirstPollCallsOf(Tail(chunk))

(* Every response recorded as Some, the zero value included.               *)
SlotValue_zero_kept(storage_result) == Some(storage_result)

(* if storage_result == [0; 32] { None } else { Some(..) }.                *)
SlotValue(storage_result) ==
    IF storage_result = Zero32 THEN None ELSE Some(storage_result)

(* for (idx, slot) in slot_batch.iter().enumerate(): the waiter awaited is *)
(* storage_requests[idx], counted from the start of the vector; an         *)
(* all-zero 32-byte response is recorded as None.                          *)
RECURSIVE ReadBatch(_, _, _, _, _)
ReadBatch(address, slot_batch, idx, waiters, result) ==
    IF idx > Len(slot_batch) THEN Ok([storage_requests |-> waiters, result |-> result])
    ELSE LET waiter == waiters[idx]
         IN  IF waiter.awaited THEN [kind |-> "PolledAfterCompletion"]
             ELSE IF GetStorageAt(address, waiter.slot) \in fail
             THEN RequestError("Failed to collect storage request data")
             ELSE LET storage_result == NodeStorageAt(address, waiter.slot)
                      value == SlotValue(storage_result)
                  IN  ReadBatch(address, slot_batch, idx + 1,
                          [waiters EXCEPT ![idx].awaited = TRUE],
                          MapInsert(result, slot_batch[idx], value))

(* What awaiting a future again after it has completed may do: the Future  *)
(* contract leaves it open (panic, or never complete).                     *)
PolledAfterCompletion == {"Panic", "Hang"}

(* The assembly with the storage results read from the end of the list.    *)
RECURSIVE AssembleChunk_results_reversed(_, _, _, _, _, _)
AssembleChunk_results_reversed(chunk, idx, cs, bs, storage_results, acc) ==
    IF idx > Len(chunk) THEN Ok(acc)
    ELSE IF idx > Len(storage_results)
    THEN UnknownError("Unable to find storage result")
    ELSE LET address == chunk[idx].address
             account_delta ==
                 [address |-> address, chain |-> chain,
                  slots |-> storage_results[Len(storage_results) + 1 - idx],
                  balance |-> IF address \in DOMAIN bs THEN Some(bs[address]) ELSE None,
                  code |-> IF address \in DOMAIN cs THEN Some(cs[address]) ELSE None,
                  change |-> "Creation"]
         IN  AssembleChunk_results_reversed(chunk, idx + 1, cs, bs, storage_results,
                                            MapInsert(acc, address, account_delta))

(* The assembly that adds the storage of a request to the slots its        *)
(* address already has in the map.                                         *)
RECURSIVE AssembleChunk_slots_merged(_, _, _, _, _, _)
AssembleChunk_slots_merged(chunk, idx, cs, bs, storage_results, acc) ==
    IF idx > Len(chunk) THEN Ok(acc)
    ELSE IF idx > Len(storage_results)
    THEN UnknownError("Unable to find storage result")
    ELSE LET address == chunk[idx].address
             earlier == IF address \in DOMAIN acc THEN acc[address].slots ELSE EmptyMap
             account_delta ==
                 [address |-> address, chain |-> chain,
                  slots |-> [k \in (DOMAIN earlier) \cup (DOMAIN storage_results[idx]) |->
                                IF k \in DOMAIN storage_results[idx]
                                THEN storage_results[idx][k] ELSE earlier[k]],
                  balance |-> IF address \in DOMAIN bs THEN Some(bs[address]) ELSE None,
                  code |-> IF address \in DOMAIN cs THEN Some(cs[address]) ELSE None,
                  change |-> "Creation"]
         IN  AssembleChunk_slots_merged(chunk, idx + 1, cs, bs, storage_results,
                                        MapInsert(acc, address, account_delta))

(* for (idx, request) in chunk.iter().enumerate(): the AccountDelta of     *)
(* each request, inserted under its address.                               *)
RECURSIVE AssembleChunk(_, _, _, _, _, _)
AssembleChunk(chunk, idx, cs, bs, storage_results, acc) ==
    IF idx > Len(chunk) THEN Ok(acc)
    ELSE IF idx > Len(storage_results)
    THEN UnknownError("Unable to find storage result")
    ELSE LET address == chunk[idx].address
             account_delta ==
                 [address |-> address, chain |-> chain,
                  slots |-> storage_results[idx],
                  balance |-> IF address \in DOMAIN bs THEN Some(bs[address]) ELSE None,
                  code |-> IF address \in DOMAIN cs THEN Some(cs[address]) ELSE None,
                  change |-> "Creation"]
         IN  AssembleChunk(chunk, idx + 1, cs, bs, storage_results,
                           MapInsert(acc, address, account_delta))

-----------------------------------------------------------------------------
(* get_accounts_at_block as a state machine.                               *)
DecoderIdle == target = "idle" /\ msg = << >> /\ res = NoResult /\ pc = "idle"

BatchInit ==
    /\ DecoderIdle
    /\ RpcIdle
    /\ SimIdle
    /\ ClientIdle
    /\ request_idx = 1 /\ range_start_key = "" /\ range_all_slots = EmptyMap
    /\ requests \in SeqsUpTo(Requests, MaxRequests) \cup {DisjointSlotLists}
    /\ fail \in Failures
    /\ unique_requests = << >>
    /\ chunk_start = 1
    /\ bpc = "start"
    /\ codes = EmptyMap /\ balances = EmptyMap /\ futs = << >>
    /\ updates = EmptyMap
    /\ bres = NoResult
    /\ calls = EmptyBag

BatchReturns(r) ==
    /\ bres' = r
    /\ bpc' = "done"

(* The deduplication, up to the head of the chunk loop.                    *)
Deduplicate ==
    /\ bpc = "start"
    /\ \E order \in collect_unique(requests) :
          /\ unique_requests' = order
          /\ IF order = << >>
             THEN BatchReturns(Ok(updates))
             ELSE bpc' = "metadata" /\ bres' = bres
    /\ UNCHANGED <<requests, fail, chunk_start, codes, balances, futs, updates, calls>>
    /\ UNCHANGED <<decoderVars, singleLocals, clientVars, rpcVars, simVars>>

(* The code and balance batch joined with the storage futures: the first   *)
(* poll of the storage futures is made whatever the batch returns.         *)
FetchMetadata_joined ==
    /\ bpc = "metadata"
    /\ LET metadata == batch_fetch_account_code_and_balance(Chunk)
       IN  IF ~IsOk(metadata)
           THEN /\ BatchReturns(metadata)
                /\ calls' = calls (+) BagOfCalls(MetadataCalls(Chunk))
                                  (+) BagOfCalls(FirstPollCallsOf(Chunk))
                /\ UNCHANGED <<codes, balances, futs>>
           ELSE /\ codes' = metadata.value.codes
                /\ balances' = metadata.value.balances
                /\ futs' = [i \in DOMAIN Chunk |-> FirstPoll(Chunk[i])]
                /\ calls' = calls (+) BagOfCalls(MetadataCalls(Chunk))
                                  (+) BagOfCalls(FirstPollCallsOf(Chunk))
                /\ bpc' = "storage"
                /\ bres' = bres
    /\ UNCHANGED <<requests, fail, unique_requests, chunk_start, updates>>
    /\ UNCHANGED <<decoderVars, singleLocals, clientVars, rpcVars, simVars>>

(* metadata_fut.await?: the code and balance batch of the chunk, then the  *)
(* first poll of try_join_all(storage_futures), which polls every storage  *)
(* future of the chunk once.                                               *)
FetchMetadata ==
    /\ bpc = "metadata"
    /\ LET metadata == batch_fetch_account_code_and_balance(Chunk)
       IN  IF ~IsOk(metadata)
           THEN /\ BatchReturns(metadata)
                /\ calls' = calls (+) BagOfCalls(MetadataCalls(Chunk))
                /\ UNCHANGED <<codes, balances, futs>>
           ELSE /\ codes' = metadata.value.codes
                /\ balances' = metadata.value.balances
                /\ futs' = [i \in DOMAIN Chunk |-> FirstPoll(Chunk[i])]
                /\ calls' = calls (+) BagOfCalls(MetadataCalls(Chunk))
                                  (+) BagOfCalls(FirstPollCallsOf(Chunk))
                /\ bpc' = "storage"
                /\ bres' = bres
    /\ UNCHANGED <<requests, fail, unique_requests, chunk_start, updates>>
    /\ UNCHANGED <<decoderVars, singleLocals, clientVars, rpcVars, simVars>>

(* storage_batch.send().await of future i completes: the responses of the  *)
(* batch are read, then the next batch is sent or the future returns.      *)
StorageBatchCompletes(i) ==
    /\ bpc = "storage"
    /\ futs[i].st = "sending"
    /\ LET request == Chunk[i]
           slots == Unwrap(request.slots)
           fut == futs[i]
           slot_batch == SlotBatch(slots, fut.batch_start)
           read == ReadBatch(request.address, slot_batch, 1, fut.storage_requests, fut.result)
           next_start == fut.batch_start + StorageMaxBatchSize
           next_batch == SlotBatch(slots, next_start)
       IN  IF BatchSend \in fail
           THEN /\ BatchReturns(RequestError("Failed to send batch request"))
                /\ UNCHANGED <<futs, calls>>
           ELSE IF read.kind = "PolledAfterCompletion"
           THEN /\ \E outcome \in PolledAfterCompletion :
                      BatchReturns([kind |-> outcome, reason |-> "polled after completion"])
                /\ UNCHANGED <<futs, calls>>
           ELSE IF ~IsOk(read)
           THEN /\ BatchReturns(read)
                /\ UNCHANGED <<futs, calls>>
           ELSE IF next_start <= Len(slots)
           THEN /\ futs' = [futs EXCEPT ![i] =
                               [fut EXCEPT !.batch_start = next_start,
                                           !.storage_requests =
                                               read.value.storage_requests \o Waiters(next_batch),
                                           !.result = read.value.result]]
                /\ calls' = calls (+) BagOfCalls(StorageCalls(request.address, next_batch))
                /\ UNCHANGED <<bpc, bres>>
           ELSE /\ futs' = [futs EXCEPT ![i] =
                               [fut EXCEPT !.st = "ready",
                                           !.storage_requests = read.value.storage_requests,
                                           !.result = read.value.result]]
                /\ UNCHANGED <<bpc, bres, calls>>
    /\ UNCHANGED <<requests, fail, unique_requests, chunk_start, codes, balances, updates>>
    /\ UNCHANGED <<decoderVars, singleLocals, clientVars, rpcVars, simVars>>

(* A get_storage_range that returns after its first page.                  *)
StoragePageCompletes_first_page_only(i) ==
    /\ bpc = "storage"
    /\ futs[i].st = "paging"
    /\ LET request == Chunk[i]
           fut == futs[i]
           page == NodeStorageRange(request.address, fut.start_key)
           all_slots == [k \in (DOMAIN fut.result) \cup (DOMAIN page.storage) |->
                            IF k \in DOMAIN page.storage THEN Some(page.storage[k])
                            ELSE fut.result[k]]
       IN  IF StorageRangeAt(request.address, fut.start_key) \in fail
           THEN /\ BatchReturns(RequestError("Failed to get storage"))
                /\ UNCHANGED <<futs, calls>>
           ELSE /\ futs' = [futs EXCEPT ![i] = [fut EXCEPT !.st = "ready", !.result = all_slots]]
                /\ UNCHANGED <<bpc, bres, calls>>
    /\ UNCHANGED <<requests, fail, unique_requests, chunk_start, codes, balances, updates>>
    /\ UNCHANGED <<decoderVars, singleLocals, clientVars, rpcVars, simVars>>

(* A debug_storageRangeAt call of future i completes (get_storage_range):  *)
(* its entries are merged, then the next page is requested or the future   *)
(* returns every entry as Some(value).                                     *)
StoragePageCompletes(i) ==
    /\ bpc = "storage"
    /\ futs[i].st = "paging"
    /\ LET request == Chunk[i]
           fut == futs[i]
           page == NodeStorageRange(request.address, fut.start_key)
           all_slots == [k \in (DOMAIN fut.result) \cup (DOMAIN page.storage) |->
                            IF k \in DOMAIN page.storage THEN Some(page.storage[k])
                            ELSE fut.result[k]]
       IN  IF StorageRangeAt(request.address, fut.start_key) \in fail
           THEN /\ BatchReturns(RequestError("Failed to get storage"))
                /\ UNCHANGED <<futs, calls>>
           ELSE IF IsSome(page.next_key)
           THEN /\ futs' = [futs EXCEPT ![i] =
                               [fut EXCEPT !.start_key = Unwrap(page.next_key),
                                           !.result = all_slots]]
                /\ calls' = calls (+) SetToBag({StorageRangeAt(request.address,
                                                               Unwrap(page.next_key))})
                /\ UNCHANGED <<bpc, bres>>
           ELSE /\ futs' = [futs EXCEPT ![i] = [fut EXCEPT !.st = "ready", !.result = all_slots]]
                /\ UNCHANGED <<bpc, bres, calls>>
    /\ UNCHANGED <<requests, fail, unique_requests, chunk_start, codes, balances, updates>>
    /\ UNCHANGED <<decoderVars, singleLocals, clientVars, rpcVars, simVars>>

(* try_join_all returns the results in the order of the futures; the       *)
(* deltas of the chunk are assembled and the loop goes to the next chunk   *)
(* or the call returns Ok(updates).                                        *)
AssembleAccountDeltas ==
    /\ bpc = "storage"
    /\ \A i \in DOMAIN futs : futs[i].st = "ready"
    /\ LET storage_results == [i \in DOMAIN futs |-> futs[i].result]
           assembled == AssembleChunk(Chunk, 1, codes, balances, storage_results, updates)
           next_start == chunk_start + MaxBatchSize
       IN  IF ~IsOk(assembled)
           THEN BatchReturns(assembled) /\ UNCHANGED <<updates, chunk_start>>
           ELSE /\ updates' = assembled.value
                /\ IF next_start <= Len(unique_requests)
                   THEN chunk_start' = next_start /\ bpc' = "metadata" /\ bres' = bres
                   ELSE BatchReturns(Ok(assembled.value)) /\ chunk_start' = chunk_start
    /\ UNCHANGED <<requests, fail, unique_requests, codes, balances, futs, calls>>
    /\ UNCHANGED <<decoderVars, singleLocals, clientVars, rpcVars, simVars>>

BatchNext ==
    \/ Deduplicate
    \/ FetchMetadata
    \/ \E i \in DOMAIN futs : StorageBatchCompletes(i)
    \/ \E i \in DOMAIN futs : StoragePageCompletes(i)
    \/ AssembleAccountDeltas

SpecBatch == BatchInit /\ [][BatchNext]_vars

-----------------------------------------------------------------------------
(* Properties of the batched extractor.                                    *)

(* The debug_storageRangeAt calls of a full dump that starts at start_key, *)
(* as the replay answers them.                                             *)
RECURSIVE DumpCalls(_, _)
DumpCalls(a, start_key) ==
    LET page == NodeStorageRange(a, start_key)
    IN  <<StorageRangeAt(a, start_key)>>
            \o (IF IsSome(page.next_key) THEN DumpCalls(a, Unwrap(page.next_key)) ELSE << >>)

(* The calls of one request: its code, its balance and its storage.        *)
CallsOfRequest(r) ==
    <<GetCode(r.address), GetBalance(r.address)>>
        \o (IF IsSome(r.slots) THEN StorageCalls(r.address, Unwrap(r.slots))
            ELSE DumpCalls(r.address, ZeroKey))

(* The calls of the input in which every request appears once.             *)
RECURSIVE CallsOfRequests(_)
CallsOfRequests(set) ==
    IF set = {} THEN EmptyBag
    ELSE LET r == CHOOSE x \in set : TRUE
         IN  BagOfCalls(CallsOfRequest(r)) (+) CallsOfRequests(set \ {r})

OneCopyCalls == CallsOfRequests({requests[i] : i \in DOMAIN requests})

(* C10: however many times a StorageSnapshotRequest appears in the input,  *)
(* the RPC calls issued are those of the input that holds it once: no call *)
(* is ever issued more often, and a call that returns Ok has issued each   *)
(* exactly as often.                                                       *)
C10_CallsAsForOneCopy ==
    /\ calls \sqsubseteq OneCopyCalls
    /\ (bpc = "done" /\ IsOk(bres)) => calls = OneCopyCalls

(* A successful call whose input of MaxRequests requests held a request    *)
(* more than once and whose calls include storage reads.                   *)
C10_Witness ==
    /\ bpc = "done" /\ IsOk(bres)
    /\ Len(requests) = MaxRequests
    /\ Cardinality({requests[i] : i \in DOMAIN requests}) < Len(requests)
    /\ \E c \in BagToSet(calls) : c.method \in {"eth_getStorageAt", "debug_storageRangeAt"}

-----------------------------------------------------------------------------
(* The results of the batched extractor.                                   *)

UniqueRequests == {requests[i] : i \in DOMAIN requests}
RequestsFor(a) == {r \in UniqueRequests : r.address = a}
Addresses == {r.address : r \in Requests}
SlotSet(slots) == {slots[i] : i \in DOMAIN slots}
BatchDone == bpc = "done" /\ IsOk(bres)
(* The states in which futs holds the storage futures of Chunk.            *)
FuturesOfChunk == bpc \in {"storage", "done"}

(* C12: in the specific-slot path an eth_getStorageAt response of exactly  *)
(* 32 zero bytes is recorded as None for its slot, and any other response  *)
(* as Some of exactly the response bytes, in the result of the storage     *)
(* fetch and in the AccountDelta returned.                                 *)
C12_ZeroIsNoneElseExactBytes ==
    /\ FuturesOfChunk =>
          \A i \in DOMAIN futs : IsSome(Chunk[i].slots) =>
              \A k \in DOMAIN futs[i].result :
                  LET response == NodeStorageAt(Chunk[i].address, k)
                  IN  futs[i].result[k] =
                          IF response = Zero32 THEN None ELSE Some(response)
    /\ BatchDone =>
          \A a \in DOMAIN bres.value :
              (\A r \in RequestsFor(a) : IsSome(r.slots)) =>
                  \A k \in DOMAIN bres.value[a].slots :
                      LET response == NodeStorageAt(a, k)
                      IN  bres.value[a].slots[k] =
                              IF response = Zero32 THEN None ELSE Some(response)

(* A returned delta whose slot map holds a None (zero response) and a Some *)
(* of a response that is not 32 bytes long.                                *)
C12_Witness ==
    /\ BatchDone
    /\ \E a \in DOMAIN bres.value :
          /\ \A r \in RequestsFor(a) : IsSome(r.slots)
          /\ \E k, l \in DOMAIN bres.value[a].slots :
                /\ bres.value[a].slots[k] = None
                /\ NodeStorageAt(a, k) = Zero32
                /\ IsSome(bres.value[a].slots[l])
                /\ Len(NodeStorageAt(a, l)) # 32

(* C13: for a request with slots = Some([k1..kn]) the slot map fetched has *)
(* exactly the keys k1..kn, so has the AccountDelta returned for its       *)
(* address, and no debug_storageRangeAt call is issued for it (such a call *)
(* belongs to a request with slots = None).                                *)
C13_ExactlyRequestedKeys ==
    /\ FuturesOfChunk =>
          \A i \in DOMAIN futs :
              (IsSome(Chunk[i].slots) /\ futs[i].st = "ready") =>
                  DOMAIN futs[i].result = SlotSet(Unwrap(Chunk[i].slots))
    /\ \A c \in BagToSet(calls) :
          c.method = "debug_storageRangeAt" => Request(c.address, None) \in UniqueRequests
    /\ BatchDone =>
          \A a \in DOMAIN bres.value : \A r \in UniqueRequests :
              (RequestsFor(a) = {r} /\ IsSome(r.slots)) =>
                  DOMAIN bres.value[a].slots = SlotSet(Unwrap(r.slots))

(* A returned delta for a request of two or more slots, with no storage    *)
(* dump in the calls.                                                      *)
C13_Witness ==
    /\ BatchDone
    /\ \E r \in UniqueRequests :
          /\ RequestsFor(r.address) = {r}
          /\ IsSome(r.slots)
          /\ Cardinality(SlotSet(Unwrap(r.slots))) >= 2
          /\ DOMAIN bres.value[r.address].slots = SlotSet(Unwrap(r.slots))
          /\ \A c \in BagToSet(calls) : c.address = r.address => c.method # "debug_storageRangeAt"

(* The storage a request fetches when every call succeeds.                 *)
RECURSIVE DumpStorage(_, _, _)
DumpStorage(a, start_key, all_slots) ==
    LET page == NodeStorageRange(a, start_key)
        merged == [k \in (DOMAIN all_slots) \cup (DOMAIN page.storage) |->
                      IF k \in DOMAIN page.storage THEN Some(page.storage[k])
                      ELSE all_slots[k]]
    IN  IF IsSome(page.next_key) THEN DumpStorage(a, Unwrap(page.next_key), merged)
        ELSE merged

ExpectedStorage(r) ==
    IF IsSome(r.slots)
    THEN [k \in SlotSet(Unwrap(r.slots)) |->
             LET response == NodeStorageAt(r.address, k)
             IN  IF response = Zero32 THEN None ELSE Some(response)]
    ELSE DumpStorage(r.address, ZeroKey, EmptyMap)

(* The map a successful run returns when the deduplicated requests come    *)
(* out of the HashSet in the given order.                                  *)
RECURSIVE ResultFor(_, _, _)
ResultFor(order, idx, acc) ==
    IF idx > Len(order) THEN acc
    ELSE LET address == order[idx].address
         IN  ResultFor(order, idx + 1,
                 MapInsert(acc, address,
                     [address |-> address, chain |-> chain,
                      slots |-> ExpectedStorage(order[idx]),
                      balance |-> Some(to_be_bytes32(NodeBalance(address))),
                      code |-> Some(NodeCode(address)),
                      change |-> "Creation"]))

(* A successful run returns the map of the order it drew.                  *)
ResultIsOfOrderDrawn == BatchDone => bres.value = ResultFor(unique_requests, 1, EmptyMap)

(* C14: for a fixed RPC replay two runs on the same request list return    *)
(* the same map: the map a successful run returns is the map of every      *)
(* order in which the deduplicated requests can come out of the HashSet,   *)
(* lists with two different requests for one address included.             *)
C14_SameResultEveryRun ==
    BatchDone => \A order \in collect_unique(requests) :
                     bres.value = ResultFor(order, 1, EmptyMap)

(* The response that ended the call was an error: the code/balance batch   *)
(* could not be sent or one of its calls failed, or the one storage future *)
(* still running had a failing call in the batch, or as the page, whose    *)
(* response arrived.                                                       *)
FailureDelivered ==
    /\ bpc = "done"
    /\ unique_requests # << >>
    /\ \/ BatchSend \in fail
       \/ \E c \in fail : c \in BagToSet(calls) /\ c.method \in {"eth_getCode", "eth_getBalance"}
       \/ \E i \in DOMAIN futs :
             /\ \A j \in DOMAIN futs : j # i => futs[j].st = "ready"
             /\ \/ /\ futs[i].st = "sending"
                   /\ LET slot_batch == SlotBatch(Unwrap(Chunk[i].slots), futs[i].batch_start)
                      IN  \E n \in DOMAIN slot_batch :
                              GetStorageAt(Chunk[i].address, slot_batch[n]) \in fail
                \/ /\ futs[i].st = "paging"
                   /\ StorageRangeAt(Chunk[i].address, futs[i].start_key) \in fail

(* C15: if an RPC call of get_accounts_at_block fails, the call returns    *)
(* RPCError::RequestError and no map, whatever was fetched before.         *)
C15_AnyFailureIsRequestError ==
    FailureDelivered => bres.kind = "RequestError"

(* C16: on success every AccountDelta has its balance present and 32 bytes *)
(* long, all zero for a zero balance, and its code present, empty for an   *)
(* account without code.                                                   *)
C16_BalanceAndCodePresent ==
    BatchDone =>
        \A a \in DOMAIN bres.value :
            LET delta == bres.value[a]
            IN  /\ IsSome(delta.balance)
                /\ Len(Unwrap(delta.balance)) = 32
                /\ (NodeBalance(a) = 0 =>
                       \A i \in 1..32 : Unwrap(delta.balance)[i] = 0)
                /\ IsSome(delta.code)
                /\ (NodeCode(a) = "" => delta.code = Some(""))

(* A returned delta of an account with a zero balance and no code.         *)
C16_Witness ==
    /\ BatchDone
    /\ \E a \in DOMAIN bres.value :
          /\ NodeBalance(a) = 0 /\ NodeCode(a) = ""
          /\ bres.value[a].balance = Some(Zero32)
          /\ bres.value[a].code = Some("")

(* C17: a request with slots = Some([]) has its storage result at once,    *)
(* empty, with no storage call; when it is the only request for its        *)
(* address no storage call names the address and the delta returned has    *)
(* an empty slot map with the code and the balance of the account.         *)
C17_EmptySlotListNoStorage ==
    /\ FuturesOfChunk =>
          \A i \in DOMAIN futs : Chunk[i].slots = Some(<< >>) =>
              futs[i].st = "ready" /\ futs[i].result = EmptyMap
    /\ \A a \in Addresses : RequestsFor(a) = {Request(a, Some(<< >>))} =>
          /\ \A c \in BagToSet(calls) :
                c.address = a => c.method \in {"eth_getCode", "eth_getBalance"}
          /\ BatchDone =>
                /\ a \in DOMAIN bres.value
                /\ bres.value[a].slots = EmptyMap
                /\ bres.value[a].code = Some(NodeCode(a))
                /\ bres.value[a].balance = Some(to_be_bytes32(NodeBalance(a)))

(* A successful call with a Some([]) request next to a request that reads  *)
(* storage.                                                                *)
C17_Witness ==
    /\ BatchDone
    /\ \E a \in Addresses :
          /\ RequestsFor(a) = {Request(a, Some(<< >>))}
          /\ a \in DOMAIN bres.value
          /\ bres.value[a].slots = EmptyMap
    /\ \E c \in BagToSet(calls) : c.method \in {"eth_getStorageAt", "debug_storageRangeAt"}

-----------------------------------------------------------------------------
(* The single-call extractor, EVMAccountExtractor::get_accounts_at_block.  *)
(* Its locals balances and codes are vectors indexed like requests.        *)

(* The conversion ? applies to a ProviderError: the spec has every RPC     *)
(* error fail the call with RPCError::RequestError.                        *)
RPCError_from(e) == RequestError(e)
(* BytesCodec::to_bytes of a U256: the spec stores 32 big-endian bytes.    *)
U256_to_bytes(n) == to_be_bytes32(n)

h160_addresses == [n \in DOMAIN requests |-> requests[n].address]
balance_futures == [n \in DOMAIN h160_addresses |-> GetBalance(h160_addresses[n])]
code_futures == [n \in DOMAIN h160_addresses |-> GetCode(h160_addresses[n])]

(* try_join_all(futures): Ok when no call fails, the error otherwise.      *)
try_join_all(futures, responses) ==
    IF \E n \in DOMAIN futures : futures[n] \in fail
    THEN RPCError_from("provider error")
    ELSE Ok(responses)

SingleInit ==
    /\ DecoderIdle
    /\ RpcIdle
    /\ SimIdle
    /\ ClientIdle
    /\ requests \in SeqsUpTo(Requests, MaxRequests)
    /\ fail \in Failures
    /\ unique_requests = << >> /\ chunk_start = 1 /\ futs = << >>
    /\ bpc = "single_start"
    /\ codes = << >> /\ balances = << >>
    /\ updates = EmptyMap
    /\ bres = NoResult
    /\ calls = EmptyBag
    /\ request_idx = 1 /\ range_start_key = ZeroKey /\ range_all_slots = EmptyMap

(* tokio::join!(try_join_all(balance_futures), try_join_all(code_futures)) *)
(* polls every future, so every call is issued; result_balances? and       *)
(* result_codes? follow.                                                   *)
JoinBalancesAndCodes ==
    /\ bpc = "single_start"
    /\ calls' = calls (+) BagOfCalls(balance_futures) (+) BagOfCalls(code_futures)
    /\ LET result_balances ==
               try_join_all(balance_futures,
                            [n \in DOMAIN h160_addresses |-> NodeBalance(h160_addresses[n])])
           result_codes ==
               try_join_all(code_futures,
                            [n \in DOMAIN h160_addresses |-> NodeCode(h160_addresses[n])])
       IN  IF ~IsOk(result_balances)
           THEN BatchReturns(result_balances) /\ UNCHANGED <<balances, codes>>
           ELSE IF ~IsOk(result_codes)
           THEN BatchReturns(result_codes) /\ UNCHANGED <<balances, codes>>
           ELSE /\ balances' = result_balances.value
                /\ codes' = result_codes.value
                /\ IF h160_addresses = << >>
                   THEN BatchReturns(Ok(updates))
                   ELSE bpc' = "single_storage" /\ bres' = bres
    /\ UNCHANGED <<requests, fail, unique_requests, chunk_start, futs, updates, singleLocals>>
    /\ UNCHANGED <<decoderVars, clientVars, rpcVars, simVars>>

(* One debug_storageRangeAt call of get_storage_range for the address of   *)
(* the loop; on the last page the AccountDelta is inserted and the loop    *)
(* goes on to the next request or the call returns Ok(updates).            *)
GetStorageRangePage ==
    /\ bpc = "single_storage"
    /\ LET address == h160_addresses[request_idx]
           call == StorageRangeAt(address, range_start_key)
           result == NodeStorageRange(address, range_start_key)
           all_slots == [k \in (DOMAIN range_all_slots) \cup (DOMAIN result.storage) |->
                            IF k \in DOMAIN result.storage THEN result.storage[k]
                            ELSE range_all_slots[k]]
           account_delta ==
               [address |-> address, chain |-> chain,
                slots |-> [k \in DOMAIN all_slots |-> Some(all_slots[k])],
                balance |-> Some(U256_to_bytes(balances[request_idx])),
                code |-> Some(codes[request_idx]),
                change |-> "Creation"]
       IN  /\ calls' = calls (+) SetToBag({call})
           /\ IF call \in fail
              THEN /\ BatchReturns(RPCError_from("provider error"))
                   /\ UNCHANGED <<updates, singleLocals>>
              ELSE IF IsSome(result.next_key)
              THEN /\ range_start_key' = Unwrap(result.next_key)
                   /\ range_all_slots' = all_slots
                   /\ UNCHANGED <<updates, request_idx, bpc, bres>>
              ELSE /\ updates' = MapInsert(updates, address, account_delta)
                   /\ range_start_key' = ZeroKey
                   /\ range_all_slots' = EmptyMap
                   /\ IF request_idx < Len(h160_addresses)
                      THEN request_idx' = request_idx + 1 /\ UNCHANGED <<bpc, bres>>
                      ELSE BatchReturns(Ok(updates')) /\ request_idx' = request_idx
    /\ UNCHANGED <<requests, fail, unique_requests, chunk_start, futs, codes, balances>>
    /\ UNCHANGED <<decoderVars, clientVars, rpcVars, simVars>>

SingleNext ==
    \/ JoinBalancesAndCodes
    \/ GetStorageRangePage

SpecSingle == SingleInit /\ [][SingleNext]_vars

(* The calls of the single-call extractor for the input in which every     *)
(* request appears once: balance, code and the pages of the full dump.     *)
RECURSIVE SingleCallsOfRequests(_)
SingleCallsOfRequests(set) ==
    IF set = {} THEN EmptyBag
    ELSE LET r == CHOOSE x \in set : TRUE
         IN  BagOfCalls(<<GetBalance(r.address), GetCode(r.address)>>
                            \o DumpCalls(r.address, ZeroKey))
                 (+) SingleCallsOfRequests(set \ {r})

(* C11: in the single-call extractor, however many times a request appears *)
(* in the input, the RPC calls issued are those of the input that holds it *)
(* once: no call is issued more often, and a call that returns Ok has      *)
(* issued each exactly as often.                                           *)
C11_SingleCallsAsForOneCopy ==
    /\ calls \sqsubseteq SingleCallsOfRequests(UniqueRequests)
    /\ BatchDone => calls = SingleCallsOfRequests(UniqueRequests)

-----------------------------------------------------------------------------
(* The realtime subscription client, TychoWsClientImpl::realtime_messages: *)
(* the session task it spawns and the consumer of the channel it returns.  *)

MaxFrames == 3
(* mpsc::channel(30), scaled.                                              *)
QueueCapacity == 1

(* Inbound frames: tungstenite Messages, or an error item of the stream.   *)
Frame(type, text) == [type |-> type, text |-> text]
Json(tag, id, ext, number) == [json |-> tag, id |-> id, ext |-> ext, number |-> number]
NoText == Json("", "", "", 0)
BlockAccountChangesText(n) == Frame("Text", Json("BlockAccountChanges", "", "vm:ambient", n))
NewSubscriptionText(u, e) == Frame("Text", Json("NewSubscription", u, e, 0))
SubscriptionEndedText(u) == Frame("Text", Json("SubscriptionEnded", u, "", 0))
InvalidText == Frame("Text", Json("invalid", "", "", 0))
Frames ==
    {BlockAccountChangesText(1), BlockAccountChangesText(2),
     NewSubscriptionText("u1", "E1"), NewSubscriptionText("u2", "E2"),
     SubscriptionEndedText("u1"), InvalidText,
     Frame("Ping", NoText), Frame("Pong", NoText), Frame("Close", NoText),
     Frame("Binary", NoText), Frame("Err", NoText)}

(* serde_json::from_str::<WebSocketMessage>(&text).                        *)
from_str(text) ==
    CASE text.json = "BlockAccountChanges" ->
             Ok([variant |-> "BlockAccountChanges",
                 block_state_changes |->
                     [extractor |-> text.ext, chain |-> "ethereum", block |-> text.number]])
      [] text.json = "NewSubscription" ->
             Ok([variant |-> "NewSubscription",
                 extractor_id |-> text.ext, subscription_id |-> text.id])
      [] text.json = "SubscriptionEnded" ->
             Ok([variant |-> "SubscriptionEnded", subscription_id |-> text.id])
      [] OTHER -> [kind |-> "Err", reason |-> "Failed to deserialize message"]

(* Command::Subscribe for the ambient extractor, as text JSON.             *)
AMBIENT_EXTRACTOR_HANDLE == "vm:ambient"
SubscribeCommand ==
    [type |-> "Text", command |-> "Subscribe", chain |-> "ethereum",
     name |-> AMBIENT_EXTRACTOR_HANDLE]
PongMessage == [type |-> "Pong", command |-> "", chain |-> "", name |-> ""]

(* The task has ended (it returned or panicked): tx is dropped.            *)
Terminated == wpc \in {"returned", "panicked"}

ClientInit ==
    /\ DecoderIdle
    /\ RpcIdle
    /\ SimIdle
    /\ ExtractorIdle
    /\ frames = << >>
    /\ wpc = "connecting"
    /\ active_extractors = EmptyMap
    /\ queue = << >>
    /\ rx = "held"
    /\ received = << >>
    /\ ws_sink = << >>
    /\ caller = None

(* connect_async(&ws_uri).await ... .expect("connect to websocket").       *)
Connect ==
    /\ wpc = "connecting"
    /\ \E connected \in BOOLEAN :
          wpc' = IF connected THEN "subscribing" ELSE "panicked"
    /\ UNCHANGED <<frames, active_extractors, queue, rx, received, ws_sink>>
    /\ UNCHANGED <<decoderVars, extractorVars, rpcVars, simVars, caller>>

(* A subscribe request whose failure ends the task.                        *)
SendSubscribe_or_panic ==
    /\ wpc = "subscribing"
    /\ \E sent \in BOOLEAN :
          /\ ws_sink' = IF sent THEN Append(ws_sink, SubscribeCommand) ELSE ws_sink
          /\ wpc' = IF sent THEN "listening" ELSE "panicked"
    /\ UNCHANGED <<frames, active_extractors, queue, rx, received>>
    /\ UNCHANGED <<decoderVars, extractorVars, rpcVars, simVars, caller>>

(* let _ = ws_sink.send(Message::Text(subscribe)).await.map_err(log).      *)
SendSubscribe ==
    /\ wpc = "subscribing"
    /\ \E sent \in BOOLEAN :
          ws_sink' = IF sent THEN Append(ws_sink, SubscribeCommand) ELSE ws_sink
    /\ wpc' = "listening"
    /\ UNCHANGED <<frames, active_extractors, queue, rx, received>>
    /\ UNCHANGED <<decoderVars, extractorVars, rpcVars, simVars, caller>>

(* A loop that polls the stream while a send to the consumer is pending.   *)
Reads_during_send(frame) ==
    /\ wpc \in {"listening", "sending"}
    /\ Len(frames) < MaxFrames
    /\ frames' = Append(frames, frame)

(* incoming_messages.next().await returns Some(msg): the frame is read.    *)
Reads(frame) ==
    /\ wpc = "listening"
    /\ Len(frames) < MaxFrames
    /\ frames' = Append(frames, frame)

(* A send that gives the message up when the channel is full.              *)
tx_send_drop_when_full(message) ==
    IF rx # "held"
    THEN wpc' = "panicked" /\ queue' = queue
    ELSE IF Len(queue) < QueueCapacity
    THEN wpc' = "listening" /\ queue' = Append(queue, message)
    ELSE wpc' = "listening" /\ queue' = queue

(* A send into a channel without a capacity.                               *)
tx_send_unbounded(message) ==
    IF rx # "held"
    THEN wpc' = "panicked" /\ queue' = queue
    ELSE wpc' = "listening" /\ queue' = Append(queue, message)

(* A send that does not fail when the receiver is gone.                    *)
tx_send_into_closed(message) ==
    IF rx # "held" \/ Len(queue) < QueueCapacity
    THEN wpc' = "listening" /\ queue' = IF rx = "held" THEN Append(queue, message) ELSE queue
    ELSE wpc' = "sending" /\ queue' = queue

(* tx.send(block_state_changes).await ... .expect("send message"): the     *)
(* send fails when the receiver is gone, waits while the channel is full.  *)
tx_send(message) ==
    IF rx # "held"
    THEN wpc' = "panicked" /\ queue' = queue
    ELSE IF Len(queue) < QueueCapacity
    THEN wpc' = "listening" /\ queue' = Append(queue, message)
    ELSE wpc' = "sending" /\ queue' = queue

OnBlockAccountChanges ==
    /\ \E frame \in Frames :
          /\ frame.type = "Text"
          /\ IsOk(from_str(frame.text))
          /\ from_str(frame.text).value.variant = "BlockAccountChanges"
          /\ Reads(frame)
          /\ tx_send(from_str(frame.text).value.block_state_changes)
    /\ UNCHANGED <<active_extractors, rx, received, ws_sink>>
    /\ UNCHANGED <<decoderVars, extractorVars, rpcVars, simVars, caller>>

(* The send that waited on a full channel completes.                       *)
CompleteSend ==
    /\ wpc = "sending"
    /\ rx # "held" \/ Len(queue) < QueueCapacity
    /\ tx_send(from_str(frames[Len(frames)].text).value.block_state_changes)
    /\ UNCHANGED <<frames, active_extractors, rx, received, ws_sink>>
    /\ UNCHANGED <<decoderVars, extractorVars, rpcVars, simVars, caller>>

OnNewSubscription ==
    /\ \E frame \in Frames :
          /\ frame.type = "Text"
          /\ IsOk(from_str(frame.text))
          /\ from_str(frame.text).value.variant = "NewSubscription"
          /\ Reads(frame)
          /\ LET response == from_str(frame.text).value
             IN  active_extractors' =
                     MapInsert(active_extractors, response.subscription_id,
                               response.extractor_id)
    /\ UNCHANGED <<wpc, queue, rx, received, ws_sink>>
    /\ UNCHANGED <<decoderVars, extractorVars, rpcVars, simVars, caller>>

(* A removal that leaves the entry in the map.                             *)
remove_entry_kept(map, key) ==
    IF key \in DOMAIN map THEN Ok(map)
    ELSE Panic("subscription id in active extractors")

(* A removal that goes on when the id is not in the map.                   *)
remove_missing_ignored(map, key) ==
    Ok([k \in (DOMAIN map) \ {key} |-> map[k]])

(* active_extractors.remove(&subscription_id).expect(..).                  *)
remove_expect(map, key) ==
    IF key \in DOMAIN map
    THEN Ok([k \in (DOMAIN map) \ {key} |-> map[k]])
    ELSE Panic("subscription id in active extractors")

OnSubscriptionEnded ==
    /\ \E frame \in Frames :
          /\ frame.type = "Text"
          /\ IsOk(from_str(frame.text))
          /\ from_str(frame.text).value.variant = "SubscriptionEnded"
          /\ Reads(frame)
          /\ LET removed == remove_expect(active_extractors,
                                          from_str(frame.text).value.subscription_id)
             IN  IF IsOk(removed)
                 THEN active_extractors' = removed.value /\ wpc' = wpc
                 ELSE active_extractors' = active_extractors /\ wpc' = "panicked"
    /\ UNCHANGED <<queue, rx, received, ws_sink>>
    /\ UNCHANGED <<decoderVars, extractorVars, rpcVars, simVars, caller>>

(* A session that gives up at the first text it cannot deserialize.        *)
OnDeserializeError_ends_session ==
    /\ \E frame \in Frames :
          /\ frame.type = "Text"
          /\ ~IsOk(from_str(frame.text))
          /\ Reads(frame)
    /\ wpc' = "returned"
    /\ UNCHANGED <<active_extractors, queue, rx, received, ws_sink>>
    /\ UNCHANGED <<decoderVars, extractorVars, rpcVars, simVars, caller>>

(* Err(e) of from_str: logged.                                             *)
OnDeserializeError ==
    /\ \E frame \in Frames :
          /\ frame.type = "Text"
          /\ ~IsOk(from_str(frame.text))
          /\ Reads(frame)
    /\ UNCHANGED <<wpc, active_extractors, queue, rx, received, ws_sink>>
    /\ UNCHANGED <<decoderVars, extractorVars, rpcVars, simVars, caller>>

(* A session that reads Pings and answers none.                            *)
OnPing_without_pong ==
    /\ \E frame \in Frames :
          /\ frame.type = "Ping"
          /\ Reads(frame)
    /\ UNCHANGED <<wpc, active_extractors, queue, rx, received, ws_sink>>
    /\ UNCHANGED <<decoderVars, extractorVars, rpcVars, simVars, caller>>

(* ws_sink.send(Message::Pong(Vec::new())).await.unwrap().                 *)
OnPing ==
    /\ \E frame \in Frames :
          /\ frame.type = "Ping"
          /\ Reads(frame)
    /\ \E sent \in BOOLEAN :
          IF sent
          THEN ws_sink' = Append(ws_sink, PongMessage) /\ wpc' = wpc
          ELSE ws_sink' = ws_sink /\ wpc' = "panicked"
    /\ UNCHANGED <<active_extractors, queue, rx, received>>
    /\ UNCHANGED <<decoderVars, extractorVars, rpcVars, simVars, caller>>

(* Pong, a message of another type, or an error item of the stream:        *)
(* nothing is done, or it is logged, and the loop goes on.                 *)
OnPong ==
    /\ \E frame \in Frames :
          /\ frame.type = "Pong"
          /\ Reads(frame)
    /\ UNCHANGED <<wpc, active_extractors, queue, rx, received, ws_sink>>
    /\ UNCHANGED <<decoderVars, extractorVars, rpcVars, simVars, caller>>

OnUnknownMessage ==
    /\ \E frame \in Frames :
          /\ frame.type = "Binary"
          /\ Reads(frame)
    /\ UNCHANGED <<wpc, active_extractors, queue, rx, received, ws_sink>>
    /\ UNCHANGED <<decoderVars, extractorVars, rpcVars, simVars, caller>>

OnTransportError ==
    /\ \E frame \in Frames :
          /\ frame.type = "Err"
          /\ Reads(frame)
    /\ UNCHANGED <<wpc, active_extractors, queue, rx, received, ws_sink>>
    /\ UNCHANGED <<decoderVars, extractorVars, rpcVars, simVars, caller>>

(* A Close arm that logs the frame and goes on with the loop.              *)
OnClose_goes_on ==
    /\ \E frame \in Frames :
          /\ frame.type = "Close"
          /\ Reads(frame)
    /\ UNCHANGED <<wpc, active_extractors, queue, rx, received, ws_sink>>
    /\ UNCHANGED <<decoderVars, extractorVars, rpcVars, simVars, caller>>

(* Message::Close: drop(tx); return.                                       *)
OnClose ==
    /\ \E frame \in Frames :
          /\ frame.type = "Close"
          /\ Reads(frame)
    /\ wpc' = "returned"
    /\ UNCHANGED <<active_extractors, queue, rx, received, ws_sink>>
    /\ UNCHANGED <<decoderVars, extractorVars, rpcVars, simVars, caller>>

(* incoming_messages.next().await returns None: the loop and the task end. *)
StreamEnds ==
    /\ wpc = "listening"
    /\ wpc' = "returned"
    /\ UNCHANGED <<frames, active_extractors, queue, rx, received, ws_sink>>
    /\ UNCHANGED <<decoderVars, extractorVars, rpcVars, simVars, caller>>

(* The consumer: rx.recv().await returns a message, or None once the       *)
(* channel is empty and tx is dropped; or the consumer drops rx.           *)
ConsumerRecv ==
    /\ rx = "held"
    /\ queue # << >>
    /\ received' = Append(received, Head(queue))
    /\ queue' = Tail(queue)
    /\ UNCHANGED <<frames, wpc, active_extractors, rx, ws_sink>>
    /\ UNCHANGED <<decoderVars, extractorVars, rpcVars, simVars, caller>>

ConsumerSeesEnd ==
    /\ rx = "held"
    /\ queue = << >>
    /\ Terminated
    /\ rx' = "ended"
    /\ UNCHANGED <<frames, wpc, active_extractors, queue, received, ws_sink>>
    /\ UNCHANGED <<decoderVars, extractorVars, rpcVars, simVars, caller>>

ConsumerDrops ==
    /\ rx = "held"
    /\ rx' = "dropped"
    /\ UNCHANGED <<frames, wpc, active_extractors, queue, received, ws_sink>>
    /\ UNCHANGED <<decoderVars, extractorVars, rpcVars, simVars, caller>>

(* fn subscribe(&self, extractor_id) -> Result<(), TychoClientError>.      *)
subscribe(extractor_id) == Panic("Not implemented")

(* fn unsubscribe(&self, subscription_id) -> Result<(), TychoClientError>. *)
unsubscribe(subscription_id) == Panic("Not implemented")

(* The holder of the client calls subscribe or unsubscribe; a call that    *)
(* panics unwinds the caller, which makes no further call.                 *)
Subscribe ==
    /\ caller = None
    /\ \E extractor_id \in {AMBIENT_EXTRACTOR_HANDLE} :
          caller' = Some([call |-> "subscribe", result |-> subscribe(extractor_id)])
    /\ UNCHANGED <<frames, wpc, active_extractors, queue, rx, received, ws_sink>>
    /\ UNCHANGED <<decoderVars, extractorVars, rpcVars, simVars>>

Unsubscribe ==
    /\ caller = None
    /\ \E subscription_id \in {"u1", "u2"} :
          caller' = Some([call |-> "unsubscribe", result |-> unsubscribe(subscription_id)])
    /\ UNCHANGED <<frames, wpc, active_extractors, queue, rx, received, ws_sink>>
    /\ UNCHANGED <<decoderVars, extractorVars, rpcVars, simVars>>

ClientNext ==
    \/ Connect
    \/ SendSubscribe
    \/ OnBlockAccountChanges
    \/ CompleteSend
    \/ OnNewSubscription
    \/ OnSubscriptionEnded
    \/ OnDeserializeError
    \/ OnPing
    \/ OnPong
    \/ OnUnknownMessage
    \/ OnTransportError
    \/ OnClose
    \/ StreamEnds
    \/ ConsumerRecv
    \/ ConsumerSeesEnd
    \/ ConsumerDrops
    \/ Subscribe
    \/ Unsubscribe

SpecClient == ClientInit /\ [][ClientNext]_vars

-----------------------------------------------------------------------------
(* Properties of the realtime client.                                      *)

(* What a frame is to the session: the variant of its message for a text   *)
(* frame that deserializes, "invalid" for one that does not, else its type. *)
VariantOf(frame) ==
    IF frame.type # "Text" THEN frame.type
    ELSE IF IsOk(from_str(frame.text)) THEN from_str(frame.text).value.variant
    ELSE "invalid"

(* The data messages of a sequence of frames, in the order of the frames.  *)
RECURSIVE DataOf(_)
DataOf(fs) ==
    IF fs = << >> THEN << >>
    ELSE IF VariantOf(Head(fs)) = "BlockAccountChanges"
    THEN <<from_str(Head(fs).text).value.block_state_changes>> \o DataOf(Tail(fs))
    ELSE DataOf(Tail(fs))

Front(seq) == SubSeq(seq, 1, Len(seq) - 1)
LastFrameIs(variant) == frames # << >> /\ VariantOf(frames[Len(frames)]) = variant
(* Every message put in the channel so far, in the order it was put.       *)
Enqueued == received \o queue
IsPrefix(a, b) == Len(a) <= Len(b) /\ a = SubSeq(b, 1, Len(a))

LastNew(fs, u) ==
    {n \in DOMAIN fs :
        /\ VariantOf(fs[n]) = "NewSubscription" /\ fs[n].text.id = u
        /\ \A later \in DOMAIN fs :
              (later > n /\ fs[later].text.id = u) =>
                  VariantOf(fs[later]) \notin {"NewSubscription", "SubscriptionEnded"}}
SubscriptionIds == {f.text.id : f \in {g \in Frames : VariantOf(g) = "NewSubscription"}}
ActiveIds(fs) == {u \in SubscriptionIds : LastNew(fs, u) # {}}

ActiveSetIsNewMinusEnded ==
    /\ DOMAIN active_extractors = ActiveIds(frames)
    /\ \A u \in DOMAIN active_extractors :
          \A n \in LastNew(frames, u) : active_extractors[u] = frames[n].text.ext

(* A step that reads a control-plane response.                             *)
ReadsResponse ==
    /\ frames' # frames
    /\ VariantOf(frames'[Len(frames')]) \in {"NewSubscription", "SubscriptionEnded"}

(* C19: at every point the active subscription set is the map of the       *)
(* NewSubscription responses read so far, less the ids ended after them,   *)
(* and a step that reads a control-plane response leaves the consumer      *)
(* queue as it is.                                                         *)
C19_ActiveSetFollowsResponses ==
    /\ []ActiveSetIsNewMinusEnded
    /\ [][ReadsResponse => (queue' = queue /\ received' = received)]_vars

(* NewSubscription{u1, E1} then SubscriptionEnded{u1}: the set is empty    *)
(* again and the consumer has been given nothing.                          *)
C19_Witness ==
    /\ frames = <<NewSubscriptionText("u1", "E1"), SubscriptionEndedText("u1")>>
    /\ active_extractors = EmptyMap
    /\ wpc = "listening"
    /\ Enqueued = << >>

(* Frame n is a SubscriptionEnded for an id that is not active.            *)
EndsUnknownSubscription(n) ==
    /\ VariantOf(frames[n]) = "SubscriptionEnded"
    /\ frames[n].text.id \notin ActiveIds(SubSeq(frames, 1, n - 1))

C21_CloseEndsSessionAfterDelivery ==
    /\ [](\A n \in DOMAIN frames :
             frames[n].type = "Close" =>
                 /\ n = Len(frames)
                 /\ wpc = "returned"
                 /\ Enqueued = DataOf(frames)
                 /\ rx = "ended" => received = DataOf(frames))
    /\ [][LastFrameIs("Close") =>
             /\ frames' = frames
             /\ wpc' = wpc
             /\ ws_sink' = ws_sink
             /\ active_extractors' = active_extractors
             /\ Enqueued' = Enqueued
             /\ (rx' = "ended" /\ rx # "ended") => queue = << >>]_vars

(* Two data messages, then a Close: the consumer has taken both and has    *)
(* seen the end of the queue.                                              *)
C21_Witness ==
    /\ frames = <<BlockAccountChangesText(1), BlockAccountChangesText(2),
                  Frame("Close", NoText)>>
    /\ wpc = "returned"
    /\ Len(received) = 2
    /\ rx = "ended"

(* The variants of TychoClientError.                                       *)
TychoClientError == {"UriParsing", "FormatRequest", "HttpClient", "ParseResponse"}

(* C22: a subscribe or unsubscribe call returns to its caller, with Ok or  *)
(* with a TychoClientError; it does not abort the caller.                  *)
C22_SubscribeAndUnsubscribeReturn ==
    IsSome(caller) => Unwrap(caller).result.kind \in {"Ok"} \cup TychoClientError

(* C23: once the socket has reported a transport error the session has     *)
(* ended, so that the consumer finds its queue closed.                     *)
C23_TransportErrorEndsSession ==
    \A n \in DOMAIN frames : frames[n].type = "Err" => Terminated

(* The data message of the last frame read.                                *)
LastData == from_str(frames[Len(frames)].text).value.block_state_changes
(* The step reads a frame; the step reads a data-plane frame.              *)
ReadsFrame == frames' # frames
ReadsData == ReadsFrame /\ VariantOf(frames'[Len(frames')]) = "BlockAccountChanges"

(* C31: the consumer queue never holds more than its capacity; a data      *)
(* frame read while the queue is full and the receiver held leaves the     *)
(* session waiting on its send; while it waits no frame is read, nothing   *)
(* is sent on the socket and the queue changes only by the consumer taking *)
(* a message; the wait ends with room in the queue, and then the message   *)
(* that waited is put at its end.                                          *)
C31_BoundedQueueBackpressure ==
    /\ [](Len(queue) <= QueueCapacity)
    /\ [](wpc = "sending" => LastFrameIs("BlockAccountChanges"))
    /\ [][(ReadsData /\ rx = "held" /\ Len(queue) = QueueCapacity) =>
             (wpc' = "sending" /\ queue' = queue)]_vars
    /\ [][wpc = "sending" =>
             /\ frames' = frames
             /\ ws_sink' = ws_sink
             /\ active_extractors' = active_extractors
             /\ wpc' = "sending" => Enqueued' = Enqueued
             /\ wpc' = "listening" =>
                   /\ Len(queue) < QueueCapacity
                   /\ queue' = Append(queue, LastData)]_vars

(* One data frame more than the queue holds was read: the consumer has     *)
(* taken the first message and the last one is now at the end of the full  *)
(* queue.                                                                  *)
C31_Witness ==
    /\ Len(frames) = QueueCapacity + 1
    /\ Len(DataOf(frames)) = QueueCapacity + 1
    /\ DataOf(frames) = received \o queue
    /\ Len(received) = 1
    /\ Len(queue) = QueueCapacity
    /\ wpc = "listening"

(* The step reads a text frame that does not deserialize.                  *)
ReadsInvalidText ==
    /\ ReadsFrame
    /\ frames'[Len(frames')].type = "Text"
    /\ ~IsOk(from_str(frames'[Len(frames')].text))

(* C32: reading a text frame that fails to deserialize leaves the session  *)
(* listening for the next frame and changes neither the active             *)
(* subscriptions nor the consumer queue nor what was sent on the socket.   *)
C32_InvalidTextHasNoEffect ==
    [][ReadsInvalidText =>
          /\ wpc' = "listening"
          /\ active_extractors' = active_extractors
          /\ queue' = queue
          /\ received' = received
          /\ rx' = rx
          /\ ws_sink' = ws_sink]_vars

(* A text that did not deserialize was read and the data frame after it    *)
(* was handled and delivered.                                              *)
C32_Witness ==
    /\ Len(frames) >= 2
    /\ VariantOf(frames[1]) = "invalid"
    /\ VariantOf(frames[2]) = "BlockAccountChanges"
    /\ Len(received) = 1
    /\ wpc = "listening"

(* C33: with the receiver dropped, the step that reads a data-plane frame  *)
(* ends the session task, and so does the end of a send that was waiting;  *)
(* the message is not put in the queue, and the ended task reads no frame  *)
(* and sends nothing on the socket.                                        *)
C33_DroppedReceiverEndsSession ==
    /\ [][(ReadsData /\ rx = "dropped") => (Terminated' /\ queue' = queue)]_vars
    /\ [][(wpc = "sending" /\ wpc' # "sending" /\ rx = "dropped") =>
             (Terminated' /\ queue' = queue)]_vars
    /\ [][Terminated =>
             (Terminated' /\ frames' = frames /\ ws_sink' = ws_sink
                /\ active_extractors' = active_extractors
                /\ Enqueued' = Enqueued)]_vars

(* The receiver was dropped, a data frame was read after it and the task   *)
(* has ended with that frame the last one read.                            *)
C33_Witness ==
    /\ rx = "dropped"
    /\ Terminated
    /\ LastFrameIs("BlockAccountChanges")
    /\ Len(DataOf(frames)) > Len(Enqueued)

(* The Subscribe commands sent on the socket so far.                       *)
SubscribesSent == {i \in DOMAIN ws_sink : ws_sink[i].command = "Subscribe"}

(* C34: until the subscribe request has been made no frame is read and     *)
(* nothing is on the socket; the request is made once, for the ambient     *)
(* extractor on Ethereum, and whether or not it was sent the session goes  *)
(* on to listen for frames; no other step sends a Subscribe command.       *)
C34_OneSubscribeBeforeFrames ==
    /\ [](wpc \in {"connecting", "subscribing"} => (frames = << >> /\ ws_sink = << >>))
    /\ [](Cardinality(SubscribesSent) <= 1)
    /\ [](\A i \in SubscribesSent :
             /\ i = 1
             /\ ws_sink[i].chain = "ethereum"
             /\ ws_sink[i].name = "vm:ambient")
    /\ [][wpc = "subscribing" =>
             /\ wpc' \in {"subscribing", "listening"}
             /\ ws_sink' \in {ws_sink, Append(ws_sink, SubscribeCommand)}]_vars
    /\ [][ReadsFrame => wpc = "listening"]_vars
    /\ [][wpc # "subscribing" => SubscribesSent' = SubscribesSent]_vars

(* The subscribe request failed and the session has since read a data      *)
(* frame and delivered its message.                                        *)
C34_Witness ==
    /\ SubscribesSent = {}
    /\ wpc = "listening"
    /\ Len(received) = 1
    /\ LastFrameIs("BlockAccountChanges")

(* The step reads a Ping; the Pongs sent and the Pings read so far.        *)
ReadsPing == ReadsFrame /\ frames'[Len(frames')].type = "Ping"
PongsSent == {i \in DOMAIN ws_sink : ws_sink[i].type = "Pong"}
PingsRead == {n \in DOMAIN frames : frames[n].type = "Ping"}

(* C35 as stated: the step that reads a Ping sends one Pong and changes    *)
(* neither the active subscriptions nor the consumer queue, so that every  *)
(* Ping read has its Pong.                                                 *)
C35_EveryPingAnswered ==
    /\ [](Cardinality(PongsSent) = Cardinality(PingsRead))
    /\ [][ReadsPing =>
             /\ ws_sink' = Append(ws_sink, PongMessage)
             /\ active_extractors' = active_extractors
             /\ queue' = queue /\ received' = received]_vars

(* C35: the step that reads a Ping either sends one Pong and leaves the    *)
(* session listening, or the send fails and the session task ends without  *)
(* a Pong; in both cases the active subscriptions and the consumer queue   *)
(* are unchanged. Every Ping read has its Pong but the one whose Pong      *)
(* failed, which is the last frame read: the ended task reads no more.     *)
C35_PingAnsweredUnlessSendFails ==
    /\ [](Cardinality(PongsSent) =
             Cardinality(PingsRead) -
                (IF wpc = "panicked" /\ LastFrameIs("Ping") THEN 1 ELSE 0))
    /\ [][ReadsPing =>
             /\ \/ ws_sink' = Append(ws_sink, PongMessage) /\ wpc' = "listening"
                \/ ws_sink' = ws_sink /\ wpc' = "panicked"
             /\ active_extractors' = active_extractors
             /\ queue' = queue /\ received' = received]_vars
    /\ [][wpc = "panicked" => (wpc' = "panicked" /\ frames' = frames)]_vars

(* A Ping was answered with a Pong, a data frame after it was delivered,   *)
(* and the Pong of a second Ping failed.                                   *)
C35_Witness ==
    /\ Len(frames) = 3
    /\ frames[1].type = "Ping"
    /\ Cardinality(PongsSent) = 1
    /\ Len(received) = 1
    /\ LastFrameIs("Ping")
    /\ wpc = "panicked"

(* The session waits on a send into a queue that is full and still held.   *)
WaitsOnFullQueue == wpc = "sending" /\ rx = "held" /\ Len(queue) = QueueCapacity

(* C39: while the session waits to enqueue a data message it reads no      *)
(* frame, sends nothing on the socket (no Pong for a Ping that came in the *)
(* meantime) and applies no subscription response; the wait does not end   *)
(* while the queue is full and held, that is before the consumer has taken *)
(* a message.                                                              *)
C39_NothingSentWhileWaiting ==
    /\ [][wpc = "sending" =>
             /\ ~ReadsFrame
             /\ PongsSent' = PongsSent
             /\ ws_sink' = ws_sink
             /\ active_extractors' = active_extractors]_vars
    /\ [][WaitsOnFullQueue => wpc' = "sending"]_vars

(* The session is waiting on its send, the consumer has just taken a       *)
(* message, and the socket carries nothing but the subscribe request.      *)
C39_Witness ==
    /\ wpc = "sending"
    /\ Len(received) = 1
    /\ Len(queue) = QueueCapacity - 1
    /\ Len(frames) = QueueCapacity + 1
    /\ Len(frames) < MaxFrames
    /\ ws_sink = <<SubscribeCommand>>

-----------------------------------------------------------------------------
(* Further properties of the batched and the single-call extractor.        *)

(* C27: in the specific-slot path, for slot lists of one or of several     *)
(* sub-chunks, no waiter is awaited a second time in place of the waiter   *)
(* of a later sub-chunk, the value recorded for a slot is the one of the   *)
(* eth_getStorageAt response for that slot, and a storage fetch that has   *)
(* returned has read the response of every waiter it created.              *)
C27_EverySlotFromItsOwnResponse ==
    /\ bpc = "done" => bres.kind \notin PolledAfterCompletion
    /\ FuturesOfChunk =>
          \A i \in DOMAIN futs : IsSome(Chunk[i].slots) =>
              /\ \A k \in DOMAIN futs[i].result :
                    futs[i].result[k] = SlotValue(NodeStorageAt(Chunk[i].address, k))
              /\ futs[i].st = "ready" =>
                    /\ Len(futs[i].storage_requests) = Len(Unwrap(Chunk[i].slots))
                    /\ \A n \in DOMAIN futs[i].storage_requests :
                          /\ futs[i].storage_requests[n].awaited
                          /\ futs[i].storage_requests[n].slot = Unwrap(Chunk[i].slots)[n]

IsStorageCall(c) == c.method \in {"eth_getStorageAt", "debug_storageRangeAt"}
(* The step issues a call, a storage call.                                 *)
IssuesCall == calls' # calls
IssuesStorageCall ==
    \E c \in BagToSet(calls') : IsStorageCall(c) /\ CopiesIn(c, calls') > CopiesIn(c, calls)
(* The node fails the code and balance batch of the chunk.                 *)
MetadataFails(chunk) ==
    \/ BatchSend \in fail
    \/ \E n \in DOMAIN chunk :
          GetCode(chunk[n].address) \in fail \/ GetBalance(chunk[n].address) \in fail
(* The storage calls of the requests of the chunks before the current one. *)
StorageCallsOfEarlierChunks ==
    {c \in UNION {BagToSet(BagOfCalls(CallsOfRequest(unique_requests[j]))) :
                     j \in 1..(chunk_start - 1)} : IsStorageCall(c)}

(* C28: a step that issues a storage call is made with the code and        *)
(* balance batch of the current chunk completed successfully; a step that  *)
(* issues the first calls of a chunk is made with every storage fetch of   *)
(* the chunk before it returned; and while the code and balance batch of   *)
(* the current chunk has not run, and for good when it fails, the storage  *)
(* calls issued are those of earlier chunks.                               *)
C28_ChunkOrdering ==
    /\ [][IssuesStorageCall =>
             /\ ~MetadataFails(Chunk)
             /\ bpc' = "storage"
             /\ DOMAIN codes' = {Chunk[n].address : n \in DOMAIN Chunk}
             /\ DOMAIN balances' = {Chunk[n].address : n \in DOMAIN Chunk}]_vars
    /\ [][(IssuesCall /\ bpc = "metadata") =>
             \A i \in DOMAIN futs : futs[i].st = "ready"]_vars
    /\ []((bpc = "metadata" \/ (bpc = "done" /\ MetadataFails(Chunk))) =>
             \A c \in BagToSet(calls) :
                 IsStorageCall(c) => c \in StorageCallsOfEarlierChunks)

(* The storage calls of a second chunk are out, the deltas of the first    *)
(* chunk assembled.                                                        *)
C28_Witness ==
    /\ bpc = "storage"
    /\ chunk_start > 1
    /\ updates # EmptyMap
    /\ \E c \in BagToSet(calls) :
          IsStorageCall(c) /\ c \notin StorageCallsOfEarlierChunks

(* Both extractors, with the scheduling of the runtime: a future that can  *)
(* go on is polled again.                                                  *)
DumpInit == BatchInit \/ SingleInit
DumpNext == BatchNext \/ SingleNext
SpecDump == DumpInit /\ [][DumpNext]_vars /\ WF_vars(DumpNext)

(* The start keys of the pages of the node for an address, from key zero   *)
(* along next_key, and the entries of its first n pages.                   *)
DumpKeys(a) == [n \in DOMAIN DumpCalls(a, ZeroKey) |-> DumpCalls(a, ZeroKey)[n].key]
PagesUnion(a, n) ==
    LET pages == {NodeStorageRange(a, DumpKeys(a)[m]) : m \in 1..n}
    IN  [k \in UNION {DOMAIN p.storage : p \in pages} |->
            (CHOOSE p \in pages : k \in DOMAIN p.storage).storage[k]]
AllPages(a) == PagesUnion(a, Len(DumpKeys(a)))
Wrapped(storage) == [k \in DOMAIN storage |-> Some(storage[k])]

(* The full dump of the batched extractor for the request of future i: the *)
(* page in flight is page n of the node, pages 1..n have been asked for    *)
(* once each with limit 100000, the first from key zero, and no other; the *)
(* entries held are those of the pages before it, and of every page once   *)
(* the future has returned.                                                *)
BatchDumpAt(i) ==
    LET a == Chunk[i].address
        keys == DumpKeys(a)
        asked(n) == \A m \in DOMAIN keys :
                        CopiesIn(StorageRangeAt(a, keys[m]), calls) = IF m <= n THEN 1 ELSE 0
    IN  /\ keys[1] = ZeroKey
        /\ \A c \in BagToSet(calls) :
              (c.method = "debug_storageRangeAt" /\ c.address = a) =>
                  c.limit = 100000 /\ \E m \in DOMAIN keys : c.key = keys[m]
        /\ futs[i].st = "paging" =>
              \E n \in DOMAIN keys :
                  /\ futs[i].start_key = keys[n]
                  /\ asked(n)
                  /\ futs[i].result = Wrapped(PagesUnion(a, n - 1))
        /\ futs[i].st = "ready" =>
              /\ asked(Len(keys))
              /\ NodeStorageRange(a, keys[Len(keys)]).next_key = None
              /\ futs[i].result = Wrapped(AllPages(a))

(* The full dump of the single-call extractor for the address of its loop: *)
(* the next page to ask for is page n of the node, the pages before it     *)
(* have been asked for once each in this dump (and all of them in each     *)
(* dump of the same address made before), and their entries are held.      *)
SingleDumpAt(idx) ==
    LET a == h160_addresses[idx]
        keys == DumpKeys(a)
        before == Cardinality({j \in 1..(idx - 1) : h160_addresses[j] = a})
    IN  /\ keys[1] = ZeroKey
        /\ \E n \in DOMAIN keys :
              /\ range_start_key = keys[n]
              /\ \A m \in DOMAIN keys :
                    CopiesIn(StorageRangeAt(a, keys[m]), calls) =
                        before + (IF m < n THEN 1 ELSE 0)
              /\ range_all_slots = PagesUnion(a, n - 1)
        /\ \A j \in 1..(idx - 1) :
              updates[h160_addresses[j]].slots = Wrapped(AllPages(h160_addresses[j]))

(* A full dump has asked for a page and not yet had its last one.          *)
DumpUnderWay ==
    \/ bpc = "single_storage"
    \/ bpc = "storage" /\ \E i \in DOMAIN futs : futs[i].st = "paging"

(* C29: the full dump of either extractor asks for the first page from key *)
(* zero with limit 100000, then for one page per next_key returned, from   *)
(* that key, and for none after a page without next_key; what it returns   *)
(* are the entries of all the pages; and a dump under way comes to its end *)
(* (the node's pages end with one that has no next_key).                   *)
C29_FullDumpLoop ==
    /\ [](FuturesOfChunk =>
             \A i \in DOMAIN futs : ~IsSome(Chunk[i].slots) => BatchDumpAt(i))
    /\ [](bpc = "single_storage" => SingleDumpAt(request_idx))
    /\ []((bpc = "done" /\ IsOk(bres) /\ unique_requests = << >>) =>
             \A a \in DOMAIN bres.value : bres.value[a].slots = Wrapped(AllPages(a)))
    /\ DumpUnderWay ~> ~DumpUnderWay

(* A dump of two pages has returned the entries of both, in the batched    *)
(* extractor.                                                              *)
C29_Witness ==
    /\ bpc = "storage"
    /\ \E i \in DOMAIN futs :
          /\ ~IsSome(Chunk[i].slots)
          /\ futs[i].st = "ready"
          /\ Len(DumpKeys(Chunk[i].address)) = 2
          /\ futs[i].result = Wrapped(AllPages(Chunk[i].address))
          /\ Cardinality(DOMAIN futs[i].result) = 3

(* Every storage future of the current chunk has returned Ok.              *)
ChunkFetched == bpc = "storage" /\ \A i \in DOMAIN futs : futs[i].st = "ready"

(* C37: when the fetches of a chunk have succeeded there is one storage    *)
(* result per request of the chunk, result i being the storage of request  *)
(* i; the delta assembled for an address holds the storage of a request    *)
(* for that address; and the call never returns UnknownError.              *)
C37_StorageResultPerRequest ==
    /\ bres.kind # "UnknownError"
    /\ ChunkFetched =>
          /\ Len(futs) = Len(Chunk)
          /\ \A i \in DOMAIN futs : futs[i].result = ExpectedStorage(Chunk[i])
    /\ bpc \in {"metadata", "storage", "done"} =>
          \A a \in DOMAIN updates :
              \E r \in RequestsFor(a) : updates[a].slots = ExpectedStorage(r)

(* A chunk of a full dump of a1 and of two slots of a2 was fetched and     *)
(* assembled, and the call returned both deltas.                           *)
C37_Witness ==
    /\ BatchDone
    /\ unique_requests = <<Request("a1", None), Request("a2", Some(<<"k2", "k1">>))>>
    /\ DOMAIN bres.value = {"a1", "a2"}
    /\ bres.value["a1"].slots = ExpectedStorage(unique_requests[1])
    /\ bres.value["a2"].slots = ExpectedStorage(unique_requests[2])
    /\ bres.value["a1"].slots # bres.value["a2"].slots

(* C38: a successful call returns one AccountDelta for each address of the *)
(* request list and for no other, each under its own address; the slots of *)
(* a delta are the storage of one request for its address, so that with    *)
(* two requests for the address whose slot lists differ they are not the   *)
(* slots of both.                                                          *)
C38_OneDeltaPerAddress ==
    BatchDone =>
        /\ DOMAIN bres.value = {requests[i].address : i \in DOMAIN requests}
        /\ \A a \in DOMAIN bres.value :
              /\ bres.value[a].address = a
              /\ \E r \in RequestsFor(a) :
                    /\ bres.value[a].slots = ExpectedStorage(r)
                    /\ IsSome(r.slots) =>
                          DOMAIN bres.value[a].slots = SlotSet(Unwrap(r.slots))

(* The call returned for two requests for a2, one for k3 and one for k2    *)
(* and k1: the delta of a2 has the slots of one of them only.              *)
C38_Witness ==
    /\ BatchDone
    /\ requests = DisjointSlotLists
    /\ DOMAIN bres.value = {"a2"}
    /\ DOMAIN bres.value["a2"].slots \in {{"k3"}, {"k1", "k2"}}

-----------------------------------------------------------------------------
(* Version resolution of the RPC service                                   *)
(* (tycho-indexer/src/services/rpc.rs).                                    *)

(* dto::Block and dto::VersionParam: every field is an Option.             *)
DtoBlock(hash, parent_hash, dto_chain, number) ==
    [hash |-> hash, parent_hash |-> parent_hash, chain |-> dto_chain, number |-> number]
VersionParam(timestamp, block) == [timestamp |-> timestamp, block |-> block]

DtoChains == {"ethereum", "starknet", "zksync"}
OptionOf(S) == {None} \cup {Some(x) : x \in S}
DtoBlocks ==
    {DtoBlock(hash, parent_hash, dto_chain, number) :
        hash \in OptionOf({"0x2410", "0xbeef"}),
        parent_hash \in OptionOf({"0x8d75"}),
        dto_chain \in OptionOf(DtoChains),
        number \in OptionOf({0, 213})}
VersionParams ==
    {VersionParam(timestamp, block) :
        timestamp \in OptionOf({"2069-01-01T04:20:00", "2020-01-01T00:00:00"}),
        block \in OptionOf(DtoBlocks)}

(* impl From<dto::Chain> for Chain.                                        *)
Chain_from(value) ==
    CASE value = "ethereum" -> "Ethereum"
      [] value = "starknet" -> "Starknet"
      [] value = "zksync" -> "ZkSync"

(* BlockIdentifier and BlockOrTimestamp.                                   *)
Hash(hash) == [id |-> "Hash", hash |-> hash, chain |-> "", number |-> 0]
Number(of_chain, number) ==
    [id |-> "Number", hash |-> "", chain |-> of_chain, number |-> number]
NoBlockIdentifier == [id |-> "", hash |-> "", chain |-> "", number |-> 0]
Block(block_identifier) ==
    [variant |-> "Block", block |-> block_identifier, timestamp |-> ""]
Timestamp(timestamp) ==
    [variant |-> "Timestamp", block |-> NoBlockIdentifier, timestamp |-> timestamp]

(* RpcError::Parse.                                                        *)
Parse(r) == [kind |-> "Parse", reason |-> r]

(* The identifier of a block that is given: hash over number and chain.    *)
BlockIdentifierOf(block) ==
    IF IsSome(block.hash)
    THEN Ok(Block(Hash(Unwrap(block.hash))))
    ELSE IF IsSome(block.chain) /\ IsSome(block.number)
    THEN Ok(Block(Number(Chain_from(Unwrap(block.chain)), Unwrap(block.number))))
    ELSE Parse("Insufficient block information")

(* A resolution that takes the timestamp whenever there is one.            *)
try_from_timestamp_first(v) ==
    IF IsSome(v.timestamp) THEN Ok(Timestamp(Unwrap(v.timestamp)))
    ELSE IF IsSome(v.block) THEN BlockIdentifierOf(Unwrap(v.block))
    ELSE Parse("Missing timestamp or block identifier")

(* A resolution that falls back to the timestamp, or to the error of a     *)
(* missing version, when the block has no identifier.                      *)
try_from_timestamp_fallback(v) ==
    IF IsSome(v.block) /\ IsOk(BlockIdentifierOf(Unwrap(v.block)))
    THEN BlockIdentifierOf(Unwrap(v.block))
    ELSE IF IsSome(v.timestamp) THEN Ok(Timestamp(Unwrap(v.timestamp)))
    ELSE Parse("Missing timestamp or block identifier")

(* A resolution in which, for a block without hash, the timestamp goes     *)
(* before chain and number.                                                *)
try_from_timestamp_over_number(v) ==
    IF IsSome(v.block) /\ IsSome(Unwrap(v.block).hash)
    THEN BlockIdentifierOf(Unwrap(v.block))
    ELSE IF IsSome(v.timestamp) THEN Ok(Timestamp(Unwrap(v.timestamp)))
    ELSE IF IsSome(v.block) THEN BlockIdentifierOf(Unwrap(v.block))
    ELSE Parse("Missing timestamp or block identifier")

(* impl TryFrom<&dto::VersionParam> for BlockOrTimestamp.                  *)
try_from(v) ==
    IF IsSome(v.block) THEN BlockIdentifierOf(Unwrap(v.block))
    ELSE IF IsSome(v.timestamp) THEN Ok(Timestamp(Unwrap(v.timestamp)))
    ELSE Parse("Missing timestamp or block identifier")

RpcInit ==
    /\ DecoderIdle
    /\ ExtractorIdle
    /\ ClientIdle
    /\ SimIdle
    /\ version \in VersionParams
    /\ at = NoResult
    /\ rpc_pc = "input"

(* let at = BlockOrTimestamp::try_from(&request.version).                  *)
ResolveVersion ==
    /\ rpc_pc = "input"
    /\ at' = try_from(version)
    /\ rpc_pc' = "done"
    /\ UNCHANGED <<version, decoderVars, extractorVars, clientVars, simVars>>

RpcNext == ResolveVersion

SpecRpc == RpcInit /\ [][RpcNext]_vars

Resolved == rpc_pc = "done"
HasBlock == IsSome(version.block)
HasHash == HasBlock /\ IsSome(Unwrap(version.block).hash)
HasChainAndNumber ==
    /\ HasBlock
    /\ IsSome(Unwrap(version.block).chain)
    /\ IsSome(Unwrap(version.block).number)
HasTimestamp == IsSome(version.timestamp)
NumberOfBlock ==
    Number(Chain_from(Unwrap(Unwrap(version.block).chain)),
           Unwrap(Unwrap(version.block).number))

(* C24: a version whose block has a hash resolves to Block(Hash(hash)),    *)
(* whatever its timestamp and the number, chain and parent hash of the     *)
(* block.                                                                  *)
C24_HashWins ==
    (Resolved /\ HasHash) => at = Ok(Block(Hash(Unwrap(Unwrap(version.block).hash))))

(* A version with a timestamp and a block with hash, parent hash, number   *)
(* and chain has resolved to the hash.                                     *)
C24_Witness ==
    /\ Resolved
    /\ version = VersionParam(Some("2069-01-01T04:20:00"),
                              Some(DtoBlock(Some("0x2410"), Some("0x8d75"),
                                            Some("ethereum"), Some(213))))
    /\ at = Ok(Block(Hash("0x2410")))

(* C25 as stated: without a block hash, chain and number together resolve  *)
(* to Block(Number(chain, number)); failing that a timestamp resolves to   *)
(* Timestamp(timestamp); the error of a missing version is returned only   *)
(* when there is no hash, no chain with number and no timestamp.           *)
C25_PrecedenceOverEveryCombination ==
    Resolved =>
        /\ (~HasHash /\ HasChainAndNumber) => at = Ok(Block(NumberOfBlock))
        /\ (~HasHash /\ ~HasChainAndNumber /\ HasTimestamp) =>
               at = Ok(Timestamp(Unwrap(version.timestamp)))
        /\ at = Parse("Missing timestamp or block identifier") =>
               (~HasHash /\ ~HasChainAndNumber /\ ~HasTimestamp)

(* C25 as amended: without a block hash, chain and number together resolve *)
(* to Block(Number(chain, number)); a timestamp resolves to                *)
(* Timestamp(timestamp) when there is no block; the error of a missing     *)
(* version is returned only when there is no hash, no chain with number    *)
(* and no timestamp.                                                       *)
C25_TimestampOnlyWithoutBlock ==
    Resolved =>
        /\ (~HasHash /\ HasChainAndNumber) => at = Ok(Block(NumberOfBlock))
        /\ (~HasBlock /\ HasTimestamp) => at = Ok(Timestamp(Unwrap(version.timestamp)))
        /\ (HasBlock /\ ~HasHash /\ ~HasChainAndNumber) => ~IsOk(at)
        /\ at = Parse("Missing timestamp or block identifier") =>
               (~HasHash /\ ~HasChainAndNumber /\ ~HasTimestamp)

(* A version with a timestamp and a block with chain starknet and number   *)
(* but no hash has resolved to the number.                                 *)
C25_Witness ==
    /\ Resolved
    /\ HasTimestamp
    /\ ~HasHash
    /\ HasChainAndNumber
    /\ at = Ok(Block(Number("Starknet", 213)))

(* C26: the resolution fails with "Insufficient block information" exactly *)
(* when there is a block with neither a hash nor both chain and number,    *)
(* with "Missing timestamp or block identifier" exactly when there is      *)
(* neither a block nor a timestamp, and succeeds in every other case.      *)
C26_ErrorsExactly ==
    Resolved =>
        /\ at = Parse("Insufficient block information") <=>
               (HasBlock /\ ~HasHash /\ ~HasChainAndNumber)
        /\ at = Parse("Missing timestamp or block identifier") <=>
               (~HasBlock /\ ~HasTimestamp)
        /\ IsOk(at) <=>
               ~ \/ (HasBlock /\ ~HasHash /\ ~HasChainAndNumber)
                 \/ (~HasBlock /\ ~HasTimestamp)

(* A version with a timestamp and a block that has a number but no chain   *)
(* and no hash has failed with "Insufficient block information".           *)
C26_Witness ==
    /\ Resolved
    /\ HasTimestamp
    /\ HasBlock
    /\ ~HasHash
    /\ IsSome(Unwrap(version.block).number)
    /\ at = Parse("Insufficient block information")

-----------------------------------------------------------------------------
(* The result of a swap simulation, GetAmountOutResult.  BigUint is an     *)
(* unbounded natural number; the new state is a boxed ProtocolSim, here    *)
(* its name.                                                               *)
MaxAmount == 1
MaxGas == 2
MaxAggregations == 2

ProtocolSims == {"state_a", "state_b"}

(* GetAmountOutResult::new                                                 *)
GetAmountOutResult_new(amount, gas, new_state) ==
    [amount |-> amount, gas |-> gas, new_state |-> new_state]

GetAmountOutResults ==
    {GetAmountOutResult_new(amount, gas, new_state) :
        amount \in 0..MaxAmount, gas \in 0..MaxGas, new_state \in ProtocolSims}

(* An aggregate that takes the gas of the other result as it takes its     *)
(* amount.                                                                 *)
aggregate_gas_replaced(self, other) ==
    [self EXCEPT !.amount = other.amount, !.gas = other.gas]

(* GetAmountOutResult::aggregate(&mut self, other): the value of self      *)
(* after the call.                                                         *)
aggregate(self, other) ==
    [self EXCEPT !.amount = other.amount, !.gas = self.gas + other.gas]

SimInit ==
    /\ DecoderIdle
    /\ ExtractorIdle
    /\ ClientIdle
    /\ RpcIdle
    /\ sim_first \in GetAmountOutResults
    /\ sim_self = sim_first
    /\ sim_others = << >>

(* self.aggregate(&other) for some other result.                           *)
Aggregate ==
    /\ Len(sim_others) < MaxAggregations
    /\ \E other \in GetAmountOutResults :
          /\ sim_self' = aggregate(sim_self, other)
          /\ sim_others' = Append(sim_others, other)
    /\ UNCHANGED sim_first
    /\ UNCHANGED <<decoderVars, extractorVars, clientVars, rpcVars>>

SimNext == Aggregate

SpecSim == SimInit /\ [][SimNext]_vars

RECURSIVE SumOfGas(_)
SumOfGas(results) ==
    IF results = << >> THEN 0 ELSE Head(results).gas + SumOfGas(Tail(results))

(* C40: after aggregating r1..rn into r0 the amount is that of rn (of r0   *)
(* when nothing was aggregated), the gas is the sum of the gas of r0..rn   *)
(* and new_state is that of r0; one aggregate sets the amount to the       *)
(* other's, adds the other's gas and leaves new_state as it was.           *)
C40_AggregateAmountLastGasSum ==
    /\ sim_self.amount = IF sim_others = << >> THEN sim_first.amount
                         ELSE sim_others[Len(sim_others)].amount
    /\ sim_self.gas = sim_first.gas + SumOfGas(sim_others)
    /\ sim_self.new_state = sim_first.new_state
    /\ sim_others # << >> =>
          LET before == IF Len(sim_others) = 1 THEN sim_first.gas
                        ELSE sim_first.gas + SumOfGas(SubSeq(sim_others, 1, Len(sim_others) - 1))
          IN  sim_self.gas = before + sim_others[Len(sim_others)].gas

(* Two results were aggregated into a first one: all three have gas, the   *)
(* amount differs from the first one's and the new states of the           *)
(* aggregated results are not that of the first.                           *)
C40_Witness ==
    /\ Len(sim_others) = 2
    /\ sim_first.gas = 1 /\ sim_others[1].gas = 2 /\ sim_others[2].gas = 1
    /\ sim_self.gas = 4
    /\ sim_first.amount = 0 /\ sim_others[1].amount = 0 /\ sim_others[2].amount = 1
    /\ sim_self.amount = 1
    /\ sim_first.new_state = "state_a" /\ sim_others[2].new_state = "state_b"
    /\ sim_self.new_state = "state_a"

====
